---- MODULE Spec2Model ----
(***************************************************************************)
(* Model of the forest-bd-viewer backend: the MVT tile handlers with their *)
(* Redis cache (backend/internal/tiles/handler.go), the PostGIS tile       *)
(* queries (backend/internal/geo/admin.go, cadastre.go) and the polygon    *)
(* analysis (backend/internal/geo/admin.go, the normalising revision of    *)
(* analysis.go), and the LiDAR canopy-height pipeline (AnalyzeLidar and    *)
(* computeCHM, backend/internal/geo/admin.go, with the Raster of           *)
(* geotiff.go), the CHM image route (backend/cmd/server/main.go), the      *)
(* GeoTIFF decoder (backend/internal/geo/geotiff.go) and the auth          *)
(* middleware (backend/internal/auth/auth.go).                             *)
(*                                                                         *)
(* Strings that the code parses are sequences of one-character strings.    *)
(* Time is counted in hours, heights in metres, coordinates in hundredths  *)
(* of a degree or of a metre.                                              *)
(***************************************************************************)
EXTENDS Integers, Sequences, FiniteSets, TLC

\* ------------------------------------------------------------------------
\* Bounds of the model
\* ------------------------------------------------------------------------

\* number of tile requests that can be in progress at the same time
NumReq == 2

\* longest raw forest-type code drawn from the alphabet of the model
MaxCodeLen == 4

\* largest number of forest parcels that intersect the polygon
MaxParcels == 2

\* hours between two observations of the clock
ClockStep == 12

\* largest width and height of a raster given to computeCHM
MaxDim == 2

\* largest number of MNS/MNT pairs the index answers pair up
MaxPairs == 2

\* number of rows, and so of strips or tiles, of a GeoTIFF given to the
\* decoder, and the number of samples in a row
MaxChunks == 2

ImageCols == 2

\* largest x and y of the tile paths built from coordinates
MaxTileXY == 11

\* ------------------------------------------------------------------------
\* Program constants
\* ------------------------------------------------------------------------

\* handler.go:18  tileCacheTTL = 24 * time.Hour
tileCacheTTL == 24

\* handler.go:19  adminTileCacheTTL = 7 * 24 * time.Hour
adminTileCacheTTL == 168

\* handler.go:54, admin.go:39, cadastre.go:13   z > 22
MaxZoom == 22

\* net/http status codes used by the handlers
StatusOK == 200
StatusNoContent == 204
StatusBadRequest == 400
StatusUnauthorized == 401
StatusInternalServerError == 500

\* admin.go:10  validAdminLayers
validAdminLayers == {"regions", "departements", "communes"}

\* ------------------------------------------------------------------------
\* strconv.Atoi and parseTileParams
\* ------------------------------------------------------------------------

Digits == {"0", "1", "2", "3", "4", "5", "6", "7", "8", "9"}

DigitVal(c) ==
    CASE c = "0" -> 0 [] c = "1" -> 1 [] c = "2" -> 2 [] c = "3" -> 3
      [] c = "4" -> 4 [] c = "5" -> 5 [] c = "6" -> 6 [] c = "7" -> 7
      [] c = "8" -> 8 [] c = "9" -> 9

RECURSIVE DecVal(_)
DecVal(s) ==
    IF s = <<>> THEN 0
    ELSE DecVal(SubSeq(s, 1, Len(s) - 1)) * 10 + DigitVal(s[Len(s)])

\* strconv.Atoi: an optional sign followed by at least one decimal digit
Atoi(s) ==
    LET signed == s /= <<>> /\ s[1] \in {"+", "-"}
        body   == IF signed THEN Tail(s) ELSE s
        okay   == body /= <<>> /\ \A i \in 1..Len(body) : body[i] \in Digits
    IN  IF ~okay THEN [err |-> TRUE, val |-> 0]
        ELSE [err |-> FALSE,
              val |-> IF signed /\ s[1] = "-" THEN 0 - DecVal(body) ELSE DecVal(body)]

MvtSuffix == <<".", "m", "v", "t">>

\* a y component that keeps its suffix
StripMvt_Never(yRaw) == yRaw

\* handler.go:45-48: the suffix is stripped only from a longer string
StripMvt(yRaw) ==
    IF Len(yRaw) > 4 /\ SubSeq(yRaw, Len(yRaw) - 3, Len(yRaw)) = MvtSuffix
    THEN SubSeq(yRaw, 1, Len(yRaw) - 4)
    ELSE yRaw

\* parseTileParams without the upper limit of z
parseTileParams_NoZoomLimit(zs, xs, ys) ==
    LET pz == Atoi(zs)
        px == Atoi(xs)
        py == Atoi(StripMvt(ys))
    IN  IF pz.err THEN [err |-> TRUE, z |-> 0, x |-> 0, y |-> 0]
        ELSE IF px.err THEN [err |-> TRUE, z |-> pz.val, x |-> 0, y |-> 0]
        ELSE IF py.err THEN [err |-> TRUE, z |-> pz.val, x |-> px.val, y |-> 0]
        ELSE [err |-> pz.val < 0 \/ px.val < 0 \/ py.val < 0,
              z |-> pz.val, x |-> px.val, y |-> py.val]

\* handler.go:35-58
parseTileParams(zs, xs, ys) ==
    LET pz == Atoi(zs)
        px == Atoi(xs)
        py == Atoi(StripMvt(ys))
    IN  IF pz.err THEN [err |-> TRUE, z |-> 0, x |-> 0, y |-> 0]
        ELSE IF px.err THEN [err |-> TRUE, z |-> pz.val, x |-> 0, y |-> 0]
        ELSE IF py.err THEN [err |-> TRUE, z |-> pz.val, x |-> px.val, y |-> 0]
        ELSE [err |-> pz.val < 0 \/ pz.val > MaxZoom \/ px.val < 0 \/ py.val < 0,
              z |-> pz.val, x |-> px.val, y |-> py.val]

\* ------------------------------------------------------------------------
\* Requests
\* ------------------------------------------------------------------------

Routes == {"foret", "admin", "cadastre"}

\* a request: the route, the path parameters as sent, and whether the auth
\* middleware published a user on the request context
Request(route, layer, zs, xs, ys, user) ==
    [route |-> route, layer |-> layer, z |-> zs, x |-> xs, y |-> ys, user |-> user]

NoRequest == Request("none", "", <<>>, <<>>, <<>>, FALSE)

\* path parameters the clients of the model send
GoodZ == <<"2", "2">>
GoodX == <<"1">>
GoodY == <<"3">>
GoodYMvt == <<"3", ".", "m", "v", "t">>

BadCoords ==
    { <<<<"2", "3">>, GoodX, GoodY>>,           \* z = 23
      <<<<"-", "1">>, GoodX, GoodY>>,           \* negative z
      <<<<"z">>, GoodX, GoodY>>,                \* non-numeric z
      <<GoodZ, <<"-", "1">>, GoodY>>,           \* negative x
      <<GoodZ, <<"1", "a">>, GoodY>>,           \* non-numeric x
      <<GoodZ, GoodX, <<"-", "3">>>>,           \* negative y
      <<GoodZ, GoodX, MvtSuffix>>,              \* ".mvt" alone is not stripped
      <<GoodZ, GoodX, <<"3", ".", "m", "v">>>> }  \* non-numeric y

GoodCoords == { <<GoodZ, GoodX, GoodY>>, <<GoodZ, GoodX, GoodYMvt>> }

LayerNames == validAdminLayers \cup {"foo"}

\* requests of the concurrent clients: with identity, well-formed, one tile
\* of a 24 h route and one tile of the 7 d route
TileInputs ==
    { Request("foret", "", GoodZ, GoodX, GoodYMvt, TRUE),
      Request("cadastre", "", GoodZ, GoodX, GoodY, TRUE),
      Request("admin", "regions", GoodZ, GoodX, GoodYMvt, FALSE) }

\* requests of the concurrent clients: all for the same tile
SameTileInputs == { Request("foret", "", GoodZ, GoodX, GoodYMvt, TRUE) }

\* requests of the sequential client: every route, layer, identity and
\* coordinate shape
ParamInputs ==
    { Request(rt, "", c[1], c[2], c[3], u) :
        rt \in {"foret", "cadastre"}, c \in GoodCoords \cup BadCoords, u \in BOOLEAN }
    \cup { Request("admin", ly, c[1], c[2], c[3], FALSE) :
        ly \in LayerNames, c \in GoodCoords \cup BadCoords }

\* ------------------------------------------------------------------------
\* Cache keys, tiles
\* ------------------------------------------------------------------------

\* handler.go:107,124,142: "tile:<kind>[:<layer>]:<z>:<x>:<y>"
CacheKey(route, layer, z, x, y) ==
    IF route = "admin" THEN <<"tile", route, layer, z, x, y>>
    ELSE <<"tile", route, z, x, y>>

\* the key a request that passed parseTileParams uses
KeyOf(in) ==
    LET p == parseTileParams(in.z, in.x, in.y)
    IN  CacheKey(in.route, in.layer, p.z, p.x, p.y)

AllKeys ==
    { KeyOf(in) : in \in { i \in ParamInputs : ~parseTileParams(i.z, i.x, i.y).err } }

\* every handler passing tileCacheTTL
TTLOf_AlwaysTileTTL(route) == tileCacheTTL

\* handler.go:108,125,143: the ttl each handler passes to serveTile
TTLOf(route) == IF route = "admin" THEN adminTileCacheTTL ELSE tileCacheTTL

\* a Go []byte: nil (as pgx scans a NULL bytea) or a slice of bytes
Nil == [nil |-> TRUE, bytes |-> <<>>]

Slice(b) == [nil |-> FALSE, bytes |-> b]

\* what a tile query can return without error: nil, an empty slice, or MVT
\* bytes; the tables can be reloaded between two queries of the same tile
TileBytes == { Nil, Slice(<<>>), Slice(<<7>>) }

ByteLen(b) == Len(b.bytes)

\* (tile, err) as returned by QueryRow(...).Scan(&tile)
QueryOutcomes ==
    { [err |-> FALSE, tile |-> t] : t \in TileBytes } \cup { [err |-> TRUE, tile |-> Nil] }

NoEntry == [val |-> <<>>, ttl |-> 0]

NoResponse == [status |-> 0, body |-> <<>>]

NoStep == [get |-> FALSE, fetch |-> FALSE, query |-> FALSE, set |-> FALSE]

NoTime == 0 - 1

\* which of the Redis GET, the fetch and the Redis SET of a request failed
NoFault == [get |-> FALSE, fetch |-> FALSE, set |-> FALSE]

\* ------------------------------------------------------------------------
\* State
\* ------------------------------------------------------------------------

VARIABLES
    cache,      \* Redis: key -> [val, ttl]; ttl = hours left, the key is gone at 0
    pc,         \* request slot -> "idle" | "fetch" | "set" | "done"
    req,        \* request slot -> the request it handles
    tile,       \* request slot -> result of fetch
    resp,       \* request slot -> response written
    did,        \* request slot -> which of Get, fetch, DB query, Set it performed
    sqlLayers,  \* layer names interpolated into executed admin statements
    age,        \* key -> hours since the last Set (NoTime: never set)
    emptyAge,   \* key -> hours since the last Set of an empty value
    seen,       \* request slot -> what the request found at its lookup
    redisUp,    \* FALSE while Redis cannot be reached: GET and SET return an error
    faults      \* request slot -> which of its Get, fetch, Set returned an error

tileVars == <<cache, pc, req, tile, resp, did, sqlLayers, age, emptyAge, seen, redisUp, faults>>

Slots == DOMAIN pc

NoSeen == [age |-> NoTime, emptyAge |-> NoTime, inflight |-> FALSE]

TileInit(slots) ==
    /\ cache = [k \in AllKeys |-> NoEntry]
    /\ pc = [r \in slots |-> "idle"]
    /\ req = [r \in slots |-> NoRequest]
    /\ tile = [r \in slots |-> Nil]
    /\ resp = [r \in slots |-> NoResponse]
    /\ did = [r \in slots |-> NoStep]
    /\ sqlLayers = {}
    /\ age = [k \in AllKeys |-> NoTime]
    /\ emptyAge = [k \in AllKeys |-> NoTime]
    /\ seen = [r \in slots |-> NoSeen]
    /\ redisUp = TRUE
    /\ faults = [r \in slots |-> NoFault]

\* ------------------------------------------------------------------------
\* Redis
\* ------------------------------------------------------------------------

\* redis GET: the value while the key has not expired, redis.Nil afterwards,
\* another error while the server cannot be reached
redisGet(k) ==
    IF redisUp /\ cache[k].ttl > 0
    THEN [err |-> FALSE, val |-> Slice(cache[k].val)]
    ELSE [err |-> TRUE, val |-> Nil]

\* redis SET key value EX ttl
redisSet(k, v, ttl) == [cache EXCEPT ![k] = [val |-> v, ttl |-> ttl]]

\* ------------------------------------------------------------------------
\* geo.ForestTile / geo.AdminTile / geo.CadastreTile
\* ------------------------------------------------------------------------

\* config.go:121-124, cadastre.go:12-15, admin.go:39-41: the coordinate guard
\* in front of every tile query
validTileCoords(z, x, y) == ~(z < 0 \/ z > MaxZoom \/ x < 0 \/ y < 0)

\* AdminTile without its allow-list guard
validAdminLayer_Unchecked(layer) == TRUE

\* admin.go:36-38: the allow-list guard in front of the interpolated query
validAdminLayer(layer) == layer \in validAdminLayers

\* TRUE when the geo function reaches its QueryRow call
geoTileQueries(route, layer, z, x, y) ==
    IF route = "admin"
    THEN validAdminLayer(layer) /\ validTileCoords(z, x, y)
    ELSE validTileCoords(z, x, y)

\* ------------------------------------------------------------------------
\* Handlers
\* ------------------------------------------------------------------------

\* c.JSON(status, ...) before serveTile is reached
Reject(r, in, status) ==
    /\ pc' = [pc EXCEPT ![r] = "done"]
    /\ req' = [req EXCEPT ![r] = in]
    /\ tile' = [tile EXCEPT ![r] = Nil]
    /\ resp' = [resp EXCEPT ![r] = [status |-> status, body |-> <<>>]]
    /\ did' = [did EXCEPT ![r] = NoStep]
    /\ seen' = [seen EXCEPT ![r] = NoSeen]
    /\ faults' = [faults EXCEPT ![r] = NoFault]
    /\ UNCHANGED <<cache, sqlLayers, age, emptyAge, redisUp>>

\* handler.go:89-92 and 70-73: 204 for an empty tile, 200 with the bytes otherwise
TileResponse(b) ==
    IF ByteLen(b) = 0
    THEN [status |-> StatusNoContent, body |-> <<>>]
    ELSE [status |-> StatusOK, body |-> b.bytes]

\* serveTile answering 500 when the cache lookup fails with an error other
\* than redis.Nil
serveTileGet_FailOnCacheError(r, in, cacheKey) ==
    LET cached == redisGet(cacheKey)
        others == { q \in Slots \ {r} : pc[q] \in {"fetch", "set"} /\ KeyOf(req[q]) = cacheKey }
    IN  /\ req' = [req EXCEPT ![r] = in]
        /\ tile' = [tile EXCEPT ![r] = Nil]
        /\ seen' = [seen EXCEPT ![r] = [age |-> age[cacheKey], emptyAge |-> emptyAge[cacheKey],
                                        inflight |-> others /= {}]]
        /\ faults' = [faults EXCEPT ![r] = [NoFault EXCEPT !.get = ~redisUp]]
        /\ IF ~cached.err
           THEN /\ pc' = [pc EXCEPT ![r] = "done"]
                /\ resp' = [resp EXCEPT ![r] = TileResponse(cached.val)]
                /\ did' = [did EXCEPT ![r] = [NoStep EXCEPT !.get = TRUE]]
           ELSE IF ~redisUp
           THEN /\ pc' = [pc EXCEPT ![r] = "done"]
                /\ resp' = [resp EXCEPT ![r] = [status |-> StatusInternalServerError, body |-> <<>>]]
                /\ did' = [did EXCEPT ![r] = [NoStep EXCEPT !.get = TRUE]]
           ELSE /\ pc' = [pc EXCEPT ![r] = "fetch"]
                /\ resp' = [resp EXCEPT ![r] = NoResponse]
                /\ did' = [did EXCEPT ![r] = [NoStep EXCEPT !.get = TRUE, !.fetch = TRUE]]
        /\ UNCHANGED <<cache, sqlLayers, age, emptyAge, redisUp>>

\* handler.go:62-77: serveTile up to the call of fetch; every error of the
\* lookup, redis.Nil or not, leads to fetch
serveTileGet(r, in, cacheKey) ==
    LET cached == redisGet(cacheKey)
        others == { q \in Slots \ {r} : pc[q] \in {"fetch", "set"} /\ KeyOf(req[q]) = cacheKey }
    IN  /\ req' = [req EXCEPT ![r] = in]
        /\ tile' = [tile EXCEPT ![r] = Nil]
        /\ seen' = [seen EXCEPT ![r] = [age |-> age[cacheKey], emptyAge |-> emptyAge[cacheKey],
                                        inflight |-> others /= {}]]
        /\ faults' = [faults EXCEPT ![r] = [NoFault EXCEPT !.get = ~redisUp]]
        /\ IF ~cached.err
           THEN /\ pc' = [pc EXCEPT ![r] = "done"]
                /\ resp' = [resp EXCEPT ![r] = TileResponse(cached.val)]
                /\ did' = [did EXCEPT ![r] = [NoStep EXCEPT !.get = TRUE]]
           ELSE /\ pc' = [pc EXCEPT ![r] = "fetch"]
                /\ resp' = [resp EXCEPT ![r] = NoResponse]
                /\ did' = [did EXCEPT ![r] = [NoStep EXCEPT !.get = TRUE, !.fetch = TRUE]]
        /\ UNCHANGED <<cache, sqlLayers, age, emptyAge, redisUp>>

\* the body shared by the three handlers once the identity check is passed
parseAndServe(r, in) ==
    LET p == parseTileParams(in.z, in.x, in.y)
    IN  IF p.err
        THEN Reject(r, in, StatusBadRequest)
        ELSE serveTileGet(r, in, CacheKey(in.route, in.layer, p.z, p.x, p.y))

\* handler.go:97-111
ForestTile(r, in) ==
    /\ pc[r] \in {"idle", "done"}
    /\ in.route = "foret"
    /\ IF ~in.user
       THEN Reject(r, in, StatusUnauthorized)
       ELSE parseAndServe(r, in)

\* handler.go:116-128
AdminTile(r, in) ==
    /\ pc[r] \in {"idle", "done"}
    /\ in.route = "admin"
    /\ parseAndServe(r, in)

\* CadastreTile without its identity check
CadastreTile_NoIdentityCheck(r, in) ==
    /\ pc[r] \in {"idle", "done"}
    /\ in.route = "cadastre"
    /\ parseAndServe(r, in)

\* handler.go:132-146
CadastreTile(r, in) ==
    /\ pc[r] \in {"idle", "done"}
    /\ in.route = "cadastre"
    /\ IF ~in.user
       THEN Reject(r, in, StatusUnauthorized)
       ELSE parseAndServe(r, in)

\* serveTile going on to store and answer after a failed query
serveTileFetch_IgnoresQueryError(r) ==
    /\ pc[r] = "fetch"
    /\ LET in == req[r]
           p  == parseTileParams(in.z, in.x, in.y)
       IN  IF ~geoTileQueries(in.route, in.layer, p.z, p.x, p.y)
           THEN /\ pc' = [pc EXCEPT ![r] = "done"]
                /\ resp' = [resp EXCEPT ![r] = [status |-> StatusInternalServerError, body |-> <<>>]]
                /\ faults' = [faults EXCEPT ![r].fetch = TRUE]
                /\ UNCHANGED <<tile, did, sqlLayers>>
           ELSE /\ did' = [did EXCEPT ![r].query = TRUE]
                /\ sqlLayers' = IF in.route = "admin" THEN sqlLayers \cup {in.layer} ELSE sqlLayers
                /\ \E out \in QueryOutcomes :
                     IF out.err
                     THEN /\ pc' = [pc EXCEPT ![r] = "set"]
                          /\ tile' = [tile EXCEPT ![r] = Nil]
                          /\ faults' = [faults EXCEPT ![r].fetch = TRUE]
                          /\ UNCHANGED resp
                     ELSE /\ pc' = [pc EXCEPT ![r] = "set"]
                          /\ tile' = [tile EXCEPT ![r] = out.tile]
                          /\ UNCHANGED <<resp, faults>>
    /\ UNCHANGED <<cache, req, age, emptyAge, seen, redisUp>>

\* handler.go:77-80: fetch returns; the geo function either refuses its
\* arguments or runs its query, which yields a tile or an error
serveTileFetch(r) ==
    /\ pc[r] = "fetch"
    /\ LET in == req[r]
           p  == parseTileParams(in.z, in.x, in.y)
       IN  IF ~geoTileQueries(in.route, in.layer, p.z, p.x, p.y)
           THEN /\ pc' = [pc EXCEPT ![r] = "done"]
                /\ resp' = [resp EXCEPT ![r] = [status |-> StatusInternalServerError, body |-> <<>>]]
                /\ faults' = [faults EXCEPT ![r].fetch = TRUE]
                /\ UNCHANGED <<tile, did, sqlLayers>>
           ELSE /\ did' = [did EXCEPT ![r].query = TRUE]
                /\ sqlLayers' = IF in.route = "admin" THEN sqlLayers \cup {in.layer} ELSE sqlLayers
                /\ \E out \in QueryOutcomes :
                     IF out.err
                     THEN /\ pc' = [pc EXCEPT ![r] = "done"]
                          /\ resp' = [resp EXCEPT ![r] = [status |-> StatusInternalServerError, body |-> <<>>]]
                          /\ faults' = [faults EXCEPT ![r].fetch = TRUE]
                          /\ UNCHANGED tile
                     ELSE /\ pc' = [pc EXCEPT ![r] = "set"]
                          /\ tile' = [tile EXCEPT ![r] = out.tile]
                          /\ UNCHANGED <<resp, faults>>
    /\ UNCHANGED <<cache, req, age, emptyAge, seen, redisUp>>

\* handler.go:82-92: store the tile and answer; the error of the SET is
\* dropped
serveTileSet(r) ==
    /\ pc[r] = "set"
    /\ LET in == req[r]
           cacheKey == KeyOf(in)
           storeBytes == IF tile[r].nil THEN <<>> ELSE tile[r].bytes
       IN  /\ IF redisUp
              THEN /\ cache' = redisSet(cacheKey, storeBytes, TTLOf(in.route))
                   /\ age' = [age EXCEPT ![cacheKey] = 0]
                   /\ emptyAge' = [emptyAge EXCEPT ![cacheKey] =
                                      IF ByteLen(tile[r]) = 0 THEN 0 ELSE @]
              ELSE UNCHANGED <<cache, age, emptyAge>>
           /\ resp' = [resp EXCEPT ![r] = TileResponse(tile[r])]
    /\ pc' = [pc EXCEPT ![r] = "done"]
    /\ did' = [did EXCEPT ![r].set = TRUE]
    /\ faults' = [faults EXCEPT ![r].set = ~redisUp]
    /\ UNCHANGED <<req, tile, sqlLayers, seen, redisUp>>

\* ages are counted up to the lifetime handler.go:17-20 gives the route: an
\* older entry has expired
MaxAge(k) == IF k[2] = "admin" THEN adminTileCacheTTL ELSE tileCacheTTL

Older(k, a) ==
    IF a = NoTime THEN NoTime
    ELSE IF a + ClockStep > MaxAge(k) THEN MaxAge(k) ELSE a + ClockStep

\* ClockStep hours pass: Redis counts every ttl down and drops the keys that
\* reach 0
Tick ==
    /\ \E k \in AllKeys : age[k] /= NoTime /\ age[k] < MaxAge(k)
    /\ cache' = [k \in AllKeys |->
                   [cache[k] EXCEPT !.ttl = IF @ > ClockStep THEN @ - ClockStep ELSE 0]]
    /\ age' = [k \in AllKeys |-> Older(k, age[k])]
    /\ emptyAge' = [k \in AllKeys |-> Older(k, emptyAge[k])]
    /\ UNCHANGED <<pc, req, tile, resp, did, sqlLayers, seen, redisUp, faults>>

\* the connection to Redis is lost or comes back
RedisFault ==
    /\ redisUp' = ~redisUp
    /\ UNCHANGED <<cache, pc, req, tile, resp, did, sqlLayers, age, emptyAge, seen, faults>>

\* ------------------------------------------------------------------------
\* TFV normalisation (tfvSQL of AnalyzePolygon, admin.go:834-879)
\* ------------------------------------------------------------------------

\* SQL: code LIKE 'p%'
Like(code, p) == Len(code) >= Len(p) /\ SubSeq(code, 1, Len(p)) = p

\* the CASE expression with the FO1 branch matching 'FO%'
tfvNorm_WideFO1(code) ==
    IF Like(code, <<"F", "F", "1">>) \/ code = <<"F", "F", "0">>
        \/ code \in { <<"A", "F", "J">>, <<"A", "F", "V">>, <<"H", "F", "W">>,
                      <<"H", "F", "Z">>, <<"Q", "F">> }
    THEN "FF1"
    ELSE IF Like(code, <<"F", "F", "2">>)
        \/ code \in { <<"C", "P", "J">>, <<"C", "P", "V">>, <<"C", "R", "J">>,
                      <<"C", "R", "V">> }
    THEN "FF2"
    ELSE IF Like(code, <<"F", "F", "3">>) \/ code \in { <<"F", "R">>, <<"M", "R">> }
    THEN "FF3"
    ELSE IF Like(code, <<"F", "O">>) \/ code = <<"3", "0">>
    THEN "FO1"
    ELSE IF Like(code, <<"F", "O", "2">>)
    THEN "FO2"
    ELSE IF Like(code, <<"F", "O", "3">>)
    THEN "FO3"
    ELSE IF Like(code, <<"L", "A">>) \/ code = <<"4", "0">>
    THEN "LA"
    ELSE IF code = <<"F", "P">> \/ code = <<"5", "0">>
    THEN "FP"
    ELSE "FF4"

\* admin.go:838-854: the CASE expression; the first branch that matches wins
tfvNorm(code) ==
    IF Like(code, <<"F", "F", "1">>) \/ code = <<"F", "F", "0">>
        \/ code \in { <<"A", "F", "J">>, <<"A", "F", "V">>, <<"H", "F", "W">>,
                      <<"H", "F", "Z">>, <<"Q", "F">> }
    THEN "FF1"
    ELSE IF Like(code, <<"F", "F", "2">>)
        \/ code \in { <<"C", "P", "J">>, <<"C", "P", "V">>, <<"C", "R", "J">>,
                      <<"C", "R", "V">> }
    THEN "FF2"
    ELSE IF Like(code, <<"F", "F", "3">>) \/ code \in { <<"F", "R">>, <<"M", "R">> }
    THEN "FF3"
    ELSE IF Like(code, <<"F", "O", "1">>) \/ code = <<"3", "0">>
    THEN "FO1"
    ELSE IF Like(code, <<"F", "O", "2">>)
    THEN "FO2"
    ELSE IF Like(code, <<"F", "O", "3">>)
    THEN "FO3"
    ELSE IF Like(code, <<"L", "A">>) \/ code = <<"4", "0">>
    THEN "LA"
    ELSE IF code = <<"F", "P">> \/ code = <<"5", "0">>
    THEN "FP"
    ELSE "FF4"

\* the codes the CASE expression names
NamedCodes ==
    { <<"F", "F", "0">>, <<"A", "F", "J">>, <<"A", "F", "V">>, <<"H", "F", "W">>,
      <<"H", "F", "Z">>, <<"Q", "F">>, <<"C", "P", "J">>, <<"C", "P", "V">>,
      <<"C", "R", "J">>, <<"C", "R", "V">>, <<"F", "R">>, <<"M", "R">>,
      <<"3", "0">>, <<"4", "0">>, <<"5", "0">>, <<"F", "P">>,
      <<"F", "F", "1", "-", "0", "9", "-", "0", "9">>, <<"L", "A", "4">>,
      <<"F", "F", "1", "G", "0", "1", "-", "0", "1">>, <<"f", "f", "1">> }

CodeChars == {"F", "O", "L", "A", "P", "0", "1", "2", "3"}

RECURSIVE CodesUpTo(_)
CodesUpTo(n) ==
    IF n = 0 THEN { <<>> }
    ELSE LET shorter == CodesUpTo(n - 1)
         IN  shorter \cup { Append(c, ch) : c \in shorter, ch \in CodeChars }

\* the non-empty raw codes of the model
RawCodes == (CodesUpTo(MaxCodeLen) \ { <<>> }) \cup NamedCodes

\* ------------------------------------------------------------------------
\* Polygon analysis (AnalyzePolygon, admin.go:782-932)
\* ------------------------------------------------------------------------

\* the input string, by what encoding/json makes of it: whether it is valid
\* JSON, the kind of its top-level value, and the member that decodes into
\* the Type field (absent, a string, null, or a value of another kind)
Doc(valid, kind, member, type) ==
    [valid |-> valid, kind |-> kind, member |-> member, type |-> type]

TypeNames == {"Polygon", "MultiPolygon", "Point", "polygon", "Feature", ""}

Docs ==
    { Doc(FALSE, "none", "absent", "") }
    \cup { Doc(TRUE, k, "absent", "") : k \in {"array", "string", "number", "null"} }
    \cup { Doc(TRUE, "object", m, "") : m \in {"absent", "null", "number"} }
    \cup { Doc(TRUE, "object", "string", t) : t \in TypeNames }

NoDoc == Doc(FALSE, "none", "absent", "")

\* admin.go:791-797: json.Unmarshal into struct{ Type string }
peekType(d) ==
    IF d.kind = "null" THEN [err |-> FALSE, Type |-> ""]
    ELSE IF d.kind /= "object" THEN [err |-> TRUE, Type |-> ""]
    ELSE IF d.member \in {"absent", "null"} THEN [err |-> FALSE, Type |-> ""]
    ELSE IF d.member = "string" THEN [err |-> FALSE, Type |-> d.type]
    ELSE [err |-> TRUE, Type |-> ""]

\* a type check that only asks for some type
typeAccepted_AnyType(t) == t /= ""

\* admin.go:798-800
typeAccepted(t) == ~(t /= "Polygon" /\ t /= "MultiPolygon")

\* admin.go:784-800: TRUE when AnalyzePolygon returns an error before its
\* first query
rejectsGeoJSON(d) ==
    IF ~d.valid THEN TRUE
    ELSE IF peekType(d).err THEN TRUE
    ELSE ~typeAccepted(peekType(d).Type)

\* a forest_parcels row that intersects the polygon: raw code, dominant
\* species (NULL or a string) and intersected area in hectares
Parcel(code, essNull, ess, area) ==
    [code_tfv |-> code, essNull |-> essNull, essence1 |-> ess, area |-> area]

ParcelRows ==
    { Parcel(<<"F", "F", "1", "-", "0", "9", "-", "0", "9">>, FALSE, <<"C", "H">>, 2),
      Parcel(<<"A", "F", "J">>, FALSE, <<>>, 1),
      Parcel(<<"C", "P", "V">>, FALSE, <<" ">>, 1),
      Parcel(<<"3", "0">>, TRUE, <<>>, 2),
      Parcel(<<"X">>, FALSE, <<"C", "H">>, 1) }

RECURSIVE SeqsUpTo(_, _)
SeqsUpTo(S, n) ==
    IF n = 0 THEN { <<>> }
    ELSE LET shorter == SeqsUpTo(S, n - 1)
         IN  shorter \cup { Append(q, e) : q \in shorter, e \in S }

RECURSIVE SumArea(_)
SumArea(rows) == IF rows = <<>> THEN 0 ELSE rows[1].area + SumArea(Tail(rows))

\* the rows of one GROUP BY fp.code_tfv-normalised group
RECURSIVE RowsOfCode(_, _)
RowsOfCode(rows, c) ==
    IF rows = <<>> THEN <<>>
    ELSE IF tfvNorm(rows[1].code_tfv) = c THEN <<rows[1]>> \o RowsOfCode(Tail(rows), c)
    ELSE RowsOfCode(Tail(rows), c)

\* the rows of one GROUP BY fp.essence1 group
RECURSIVE RowsOfEssence(_, _)
RowsOfEssence(rows, g) ==
    IF rows = <<>> THEN <<>>
    ELSE IF rows[1].essNull = g.essNull /\ rows[1].essence1 = g.essence1
         THEN <<rows[1]>> \o RowsOfEssence(Tail(rows), g)
    ELSE RowsOfEssence(Tail(rows), g)

\* ORDER BY area_ha DESC: every order of the rows that is descending
OrderByAreaDesc(rowSet) ==
    { q \in SeqsUpTo(rowSet, Cardinality(rowSet)) :
        /\ Len(q) = Cardinality(rowSet)
        /\ { q[i] : i \in 1..Len(q) } = rowSet
        /\ \A i \in 1..(Len(q) - 1) : q[i].area >= q[i + 1].area }

\* the breakdown grouped by the raw code, each row showing the normalised code
tfvGroups_ByRawCode(rows) ==
    { [code |-> tfvNorm(rows[i].code_tfv), area |-> rows[i].area] : i \in 1..Len(rows) }

\* admin.go:834-879: GROUP BY norm_code, SUM(area_ha)
tfvGroups(rows) ==
    { [code |-> c, area |-> SumArea(RowsOfCode(rows, c))] :
      c \in { tfvNorm(rows[i].code_tfv) : i \in 1..Len(rows) } }

\* SQL TRIM: leading and trailing spaces removed
RECURSIVE TrimLeft(_)
TrimLeft(t) == IF t /= <<>> /\ t[1] = " " THEN TrimLeft(Tail(t)) ELSE t

RECURSIVE TrimRight(_)
TrimRight(t) ==
    IF t /= <<>> /\ t[Len(t)] = " " THEN TrimRight(SubSeq(t, 1, Len(t) - 1)) ELSE t

\* the dash that stands for "no species"
Sentinel == <<"-">>

\* admin.go:902: COALESCE(NULLIF(TRIM(fp.essence1), ''), sentinel)
essenceLabel(p) ==
    IF p.essNull THEN Sentinel
    ELSE IF TrimRight(TrimLeft(p.essence1)) = <<>> THEN Sentinel
    ELSE TrimRight(TrimLeft(p.essence1))

\* admin.go:899-912: GROUP BY fp.essence1, SUM(area_ha)
speciesGroups(rows) ==
    { [essence |-> essenceLabel(g), area |-> SumArea(RowsOfEssence(rows, g))] :
      g \in { rows[i] : i \in 1..Len(rows) } }

VARIABLES
    parcels,    \* the forest_parcels rows that intersect the polygon
    apc,        \* "idle" | "summary" | "tfv" | "species" | "done"
    doc,        \* the input of the running AnalyzePolygon call
    queries,    \* the statements the call has sent to the database, in order
    stats       \* what the call returned

analysisVars == <<parcels, apc, doc, queries, stats>>

NoStats == [err |-> FALSE, nil |-> TRUE, count |-> 0, cover |-> 0, tfv |-> <<>>, species |-> <<>>]

ErrStats == [NoStats EXCEPT !.err = TRUE]

AnalysisInit(contents) ==
    /\ parcels \in contents
    /\ apc = "idle"
    /\ doc = NoDoc
    /\ queries = <<>>
    /\ stats = NoStats

\* admin.go:782-800: the call and its validation
AnalyzePolygon(d) ==
    /\ apc \in {"idle", "done"}
    /\ doc' = d
    /\ queries' = <<>>
    /\ IF rejectsGeoJSON(d)
       THEN apc' = "done" /\ stats' = ErrStats
       ELSE apc' = "summary" /\ stats' = NoStats
    /\ UNCHANGED parcels

\* the summary query followed by the breakdowns whatever the count
summaryQuery_NoEarlyReturn ==
    /\ apc = "summary"
    /\ queries' = Append(queries, "summary")
    /\ \E failed \in BOOLEAN :
         IF failed
         THEN apc' = "done" /\ stats' = ErrStats
         ELSE /\ stats' = [NoStats EXCEPT !.nil = FALSE, !.count = Len(parcels),
                                           !.cover = SumArea(parcels)]
              /\ apc' = "tfv"
    /\ UNCHANGED <<parcels, doc>>

\* admin.go:802-832: the summary query, and the early return without forest
summaryQuery ==
    /\ apc = "summary"
    /\ queries' = Append(queries, "summary")
    /\ \E failed \in BOOLEAN :
         IF failed
         THEN apc' = "done" /\ stats' = ErrStats
         ELSE /\ stats' = [NoStats EXCEPT !.nil = FALSE, !.count = Len(parcels),
                                           !.cover = SumArea(parcels)]
              /\ apc' = IF Len(parcels) = 0 THEN "done" ELSE "tfv"
    /\ UNCHANGED <<parcels, doc>>

\* admin.go:834-896: the forest-type breakdown
tfvQuery ==
    /\ apc = "tfv"
    /\ queries' = Append(queries, "tfv")
    /\ \E failed \in BOOLEAN :
         IF failed
         THEN apc' = "done" /\ stats' = ErrStats
         ELSE /\ \E rows \in OrderByAreaDesc(tfvGroups(parcels)) :
                   stats' = [stats EXCEPT !.tfv = rows]
              /\ apc' = "species"
    /\ UNCHANGED <<parcels, doc>>

\* admin.go:898-932: the species breakdown
speciesQuery ==
    /\ apc = "species"
    /\ queries' = Append(queries, "species")
    /\ \E failed \in BOOLEAN :
         IF failed
         THEN stats' = ErrStats
         ELSE \E rows \in OrderByAreaDesc(speciesGroups(parcels)) :
                   stats' = [stats EXCEPT !.species = rows]
    /\ apc' = "done"
    /\ UNCHANGED <<parcels, doc>>

\* the normalisation applied to one raw code
VARIABLES
    raw,        \* a raw code_tfv
    norm        \* its norm_code, "" before the CASE expression is evaluated

tfvVars == <<raw, norm>>

Normalise ==
    /\ norm = ""
    /\ norm' = tfvNorm(raw)
    /\ UNCHANGED raw

\* ------------------------------------------------------------------------
\* Rasters and the canopy height model (geotiff.go:12-21, admin.go:518-564)
\* ------------------------------------------------------------------------

\* a float32 sample: a number of metres, or NaN
Num(v) == [nan |-> FALSE, v |-> v]

NaN == [nan |-> TRUE, v |-> 0]

\* Go's == on float32: NaN equals nothing
FloatEq(a, b) == ~a.nan /\ ~b.nan /\ a.v = b.v

\* admin.go:532  NoData: -9999
chmNoData == 0 - 9999

\* geotiff.go:13-21
Raster(w, h, data, hasNoData, noData, bbox, epsg) ==
    [Width |-> w, Height |-> h, Data |-> data, HasNoData |-> hasNoData, NoData |-> noData,
     BBox |-> bbox, EPSG |-> epsg]

NoRaster == Raster(0, 0, <<>>, FALSE, Num(0), <<0, 0, 0, 0>>, 0)

\* computeCHM storing the difference without clamping it
computeCHM_NoClamp(mns, mnt) ==
    LET w == IF mnt.Width < mns.Width THEN mnt.Width ELSE mns.Width
        h == IF mnt.Height < mns.Height THEN mnt.Height ELSE mns.Height
        pixel(i) ==
            LET y == (i - 1) \div w
                x == (i - 1) % w
                mnsVal == mns.Data[y * mns.Width + x + 1]
                mntVal == mnt.Data[y * mnt.Width + x + 1]
            IN  IF (mns.HasNoData /\ FloatEq(mnsVal, mns.NoData))
                    \/ (mnt.HasNoData /\ FloatEq(mntVal, mnt.NoData))
                THEN Num(chmNoData)
                ELSE IF mnsVal.nan \/ mntVal.nan THEN Num(chmNoData)
                ELSE Num(mnsVal.v - mntVal.v)
    IN  Raster(w, h, [i \in 1..(w * h) |-> pixel(i)], TRUE, Num(chmNoData), mns.BBox, mns.EPSG)

\* admin.go:518-564; Data is row-major, pixel (x, y) of a raster is
\* Data[y*Width + x], counted from 0 in the code and from 1 here
computeCHM(mns, mnt) ==
    LET w == IF mnt.Width < mns.Width THEN mnt.Width ELSE mns.Width
        h == IF mnt.Height < mns.Height THEN mnt.Height ELSE mns.Height
        pixel(i) ==
            LET y == (i - 1) \div w
                x == (i - 1) % w
                mnsVal == mns.Data[y * mns.Width + x + 1]
                mntVal == mnt.Data[y * mnt.Width + x + 1]
            IN  IF (mns.HasNoData /\ FloatEq(mnsVal, mns.NoData))
                    \/ (mnt.HasNoData /\ FloatEq(mntVal, mnt.NoData))
                THEN Num(chmNoData)
                ELSE IF mnsVal.nan \/ mntVal.nan THEN Num(chmNoData)
                ELSE IF mnsVal.v - mntVal.v < 0 THEN Num(0)
                ELSE Num(mnsVal.v - mntVal.v)
    IN  Raster(w, h, [i \in 1..(w * h) |-> pixel(i)], TRUE, Num(chmNoData), mns.BBox, mns.EPSG)

\* the samples of the rasters of the model: heights, a negative height, NaN
\* and the usual GDAL nodata value
Palette == << Num(10), Num(5), NaN, Num(chmNoData), Num(0), Num(12), Num(0 - 3) >>

\* a w x h raster whose pixel (x, y) is sample number 3y + x + k of the palette
PaletteRaster(w, h, k, hasNoData, noData) ==
    Raster(w, h,
           [i \in 1..(w * h) |->
               Palette[((3 * ((i - 1) \div w) + ((i - 1) % w) + k) % Len(Palette)) + 1]],
           hasNoData, noData, <<0, 0, 0, 0>>, 0)

\* the GDAL_NODATA tag: absent, -9999, nan, or a height that also occurs as data
NoDataTags == { <<FALSE, Num(0)>>, <<TRUE, Num(chmNoData)>>, <<TRUE, NaN>>, <<TRUE, Num(5)>> }

ChmRasters ==
    { PaletteRaster(w, h, k, t[1], t[2]) :
        w \in 1..MaxDim, h \in 1..MaxDim, k \in 0..(Len(Palette) - 1), t \in NoDataTags }

VARIABLES
    chmMns,     \* the surface raster given to computeCHM
    chmMnt,     \* the terrain raster given to computeCHM
    chmOut      \* the raster computeCHM returned, NoRaster before the call

chmVars == <<chmMns, chmMnt, chmOut>>

ChmIdle == chmMns = NoRaster /\ chmMnt = NoRaster /\ chmOut = NoRaster

\* one call of computeCHM
ComputeCHM ==
    /\ chmOut = NoRaster
    /\ chmOut' = computeCHM(chmMns, chmMnt)
    /\ UNCHANGED <<chmMns, chmMnt>>

\* ------------------------------------------------------------------------
\* LiDAR pipeline: coordinates (admin.go:625-742)
\*
\* Coordinates are counted in hundredths of their unit (degrees for
\* EPSG:4326, metres for a projected CRS); the two quotients of the affine
\* conversion are integer quotients.
\* ------------------------------------------------------------------------

\* the GeoJSON string given to AnalyzeLidar, by what encoding/json makes of
\* it: whether it decodes, its type, whether its coordinates decode into
\* rings of positions, and the positions
LidarDoc(valid, type, coordsOk, points) ==
    [valid |-> valid, type |-> type, coordsOk |-> coordsOk, points |-> points]

NoLidarDoc == LidarDoc(FALSE, "", FALSE, {})

ParisRing == { <<230, 4880>>, <<240, 4880>>, <<240, 4890>> }

\* a ring that starts in Corsica and has positions at longitude 200
FarRing == { <<950, 4200>>, <<20000, 4200>>, <<20000, 4210>> }

LidarDocs ==
    { NoLidarDoc,
      LidarDoc(TRUE, "Point", TRUE, {}),
      LidarDoc(TRUE, "Polygon", FALSE, {}),
      LidarDoc(TRUE, "Polygon", TRUE, ParisRing),
      LidarDoc(TRUE, "MultiPolygon", TRUE, FarRing) }

ZeroBBox == <<0, 0, 0, 0>>

MinOf(S) == CHOOSE v \in S : \A w \in S : v <= w

MaxOf(S) == CHOOSE v \in S : \A w \in S : v >= w

\* admin.go:629-690
geojsonBBox(d) ==
    IF ~d.valid THEN [err |-> TRUE, bbox |-> ZeroBBox]
    ELSE IF d.type \notin {"Polygon", "MultiPolygon"} THEN [err |-> TRUE, bbox |-> ZeroBBox]
    ELSE IF ~d.coordsOk THEN [err |-> TRUE, bbox |-> ZeroBBox]
    ELSE IF d.points = {} THEN [err |-> FALSE, bbox |-> ZeroBBox]
    ELSE [err |-> FALSE,
          bbox |-> << MinOf({ c[1] : c \in d.points }), MinOf({ c[2] : c \in d.points }),
                      MaxOf({ c[1] : c \in d.points }), MaxOf({ c[2] : c \in d.points }) >>]

\* admin.go:717-722
looksLikeLambert93(bbox) ==
    /\ bbox[1] > 5000000 /\ bbox[1] < 140000000
    /\ bbox[2] > 550000000 /\ bbox[2] < 750000000
    /\ bbox[3] > 5000000 /\ bbox[3] < 140000000
    /\ bbox[4] > 550000000 /\ bbox[4] < 750000000

\* admin.go:725-730
isValidWGS84(bbox) ==
    /\ bbox[1] >= 0 - 18000 /\ bbox[1] <= 18000
    /\ bbox[2] >= 0 - 9000 /\ bbox[2] <= 9000
    /\ bbox[3] >= 0 - 18000 /\ bbox[3] <= 18000
    /\ bbox[4] >= 0 - 9000 /\ bbox[4] <= 9000

\* admin.go:735-738: cos(46.5 deg) * 111320 = 76627.4
lambert93ToLon(x, y) == 300 + ((x - 70000000) \div 76627)

\* admin.go:740-742
lambert93ToLat(x, y) == 4650 + ((y - 660000000) \div 110540)

\* admin.go:695-712
estimateWGS84Bounds(bbox, epsg) ==
    IF epsg = 4326 THEN bbox
    ELSE IF epsg = 2154 \/ (epsg = 0 /\ looksLikeLambert93(bbox))
    THEN << lambert93ToLon(bbox[1], bbox[2]), lambert93ToLat(bbox[1], bbox[2]),
            lambert93ToLon(bbox[3], bbox[4]), lambert93ToLat(bbox[3], bbox[4]) >>
    ELSE bbox

\* admin.go:313-320: the bounds of the result
resultBounds(mergedBBox, epsg, polyBBox) ==
    LET boundsWGS84 == estimateWGS84Bounds(mergedBBox, epsg)
    IN  IF ~isValidWGS84(boundsWGS84) THEN polyBBox ELSE boundsWGS84

\* what the georeferencing tags of the rasters decode to: the EPSG code and
\* the box of pair 1, the boxes of the next pairs lying 1 km further east
GeoRef(epsg, bbox) == [epsg |-> epsg, bbox |-> bbox]

GeoRefs ==
    { GeoRef(2154, <<65000000, 686000000, 65100000, 686100000>>),
      GeoRef(0, <<65000000, 686000000, 65100000, 686100000>>),
      GeoRef(4326, <<234, 4885, 235, 4886>>),
      GeoRef(32620, <<65000000, 178000000, 65100000, 178100000>>),
      GeoRef(2154, <<2000000000, 686000000, 2000100000, 686100000>>),
      GeoRef(0, ZeroBBox) }

\* ------------------------------------------------------------------------
\* LiDAR pipeline: statistics (admin.go:232-298)
\* ------------------------------------------------------------------------

\* admin.go:98  maxLidarTiles = 25
maxLidarTiles == 25

\* admin.go:274  canopyThreshold = 2.0
canopyThreshold == 2

\* what the pixels of the rasters decode to: canopy over ground, bare ground,
\* or nodata everywhere
Scenes == {"canopy", "ground", "void"}

\* the surface raster of pair i: 2 x 2, nodata -9999
SceneMns(sc, i, g) ==
    Raster(2, 2,
           IF sc = "canopy" THEN << Num(10 + i), Num(6), Num(chmNoData), Num(3) >>
           ELSE IF sc = "ground" THEN << Num(3), Num(2), Num(chmNoData), Num(1) >>
           ELSE << Num(chmNoData), Num(chmNoData), Num(chmNoData), NaN >>,
           TRUE, Num(chmNoData),
           << g.bbox[1] + (i - 1) * (g.bbox[3] - g.bbox[1]), g.bbox[2],
              g.bbox[3] + (i - 1) * (g.bbox[3] - g.bbox[1]), g.bbox[4] >>,
           g.epsg)

\* the terrain raster of pair i
SceneMnt(sc, i, g) ==
    Raster(2, 2, << Num(2), Num(2 * i), Num(0), Num(2) >>, TRUE, Num(chmNoData),
           << g.bbox[1] + (i - 1) * (g.bbox[3] - g.bbox[1]), g.bbox[2],
              g.bbox[3] + (i - 1) * (g.bbox[3] - g.bbox[1]), g.bbox[4] >>,
           g.epsg)

\* admin.go:238-245: the heights of a CHM that are neither nodata nor NaN
RECURSIVE validHeights(_, _)
validHeights(chm, i) ==
    IF i > Len(chm.Data) THEN <<>>
    ELSE LET v == chm.Data[i]
         IN  IF chm.HasNoData /\ FloatEq(v, chm.NoData) THEN validHeights(chm, i + 1)
             ELSE IF ~v.nan THEN <<v.v>> \o validHeights(chm, i + 1)
             ELSE validHeights(chm, i + 1)

\* admin.go:233-263: allCHM over the pairs, in order
RECURSIVE allCHM(_, _, _)
allCHM(mnsRasters, mntRasters, i) ==
    IF i > Len(mnsRasters) THEN <<>>
    ELSE validHeights(computeCHM(mnsRasters[i], mntRasters[i]), 1)
         \o allCHM(mnsRasters, mntRasters, i + 1)

\* admin.go:246-262: mergedBBox, the union of the boxes of the CHMs
RECURSIVE mergedBBox(_, _)
mergedBBox(mnsRasters, n) ==
    IF n = 1 THEN mnsRasters[1].BBox
    ELSE LET m == mergedBBox(mnsRasters, n - 1)
             b == mnsRasters[n].BBox
         IN  << IF b[1] < m[1] THEN b[1] ELSE m[1], IF b[2] < m[2] THEN b[2] ELSE m[2],
                IF b[3] > m[3] THEN b[3] ELSE m[3], IF b[4] > m[4] THEN b[4] ELSE m[4] >>

\* admin.go:275-280
RECURSIVE canopyOf(_)
canopyOf(vals) ==
    IF vals = <<>> THEN <<>>
    ELSE IF vals[1] >= canopyThreshold THEN <<vals[1]>> \o canopyOf(Tail(vals))
    ELSE canopyOf(Tail(vals))

RECURSIVE insertAsc(_, _)
insertAsc(sorted, v) ==
    IF sorted = <<>> THEN <<v>>
    ELSE IF v < sorted[1] THEN <<v>> \o sorted
    ELSE <<sorted[1]>> \o insertAsc(Tail(sorted), v)

\* admin.go:290  sort.Slice, ascending
RECURSIVE sortAsc(_)
sortAsc(vals) == IF vals = <<>> THEN <<>> ELSE insertAsc(sortAsc(Tail(vals)), vals[1])

RECURSIVE sumOf(_)
sumOf(vals) == IF vals = <<>> THEN 0 ELSE vals[1] + sumOf(Tail(vals))

\* admin.go:298  canopyVals[len(canopyVals)/2], the index counted from 0
medianOf(sorted) == sorted[(Len(sorted) \div 2) + 1]

\* admin.go:324-327  math.Round(h*100) / 100 of a height given as the
\* quotient num / den of positive integers, in hundredths of a metre
round2(num, den) == (200 * num + den) \div (2 * den)

\* LidarResult (admin.go:135-144); heights in hundredths of a metre
NoMessage == [kind |-> "", n |-> 0, max |-> 0]

LidarResult(hasCoverage, message) ==
    [err |-> FALSE, nil |-> FALSE, HasCoverage |-> hasCoverage, Message |-> message,
     MinHeight |-> 0, MaxHeight |-> 0, MeanHeight |-> 0, MedianHeight |-> 0,
     CHMImageID |-> <<>>, Bounds |-> ZeroBBox]

NoLidarResult == [LidarResult(FALSE, NoMessage) EXCEPT !.nil = TRUE]

ErrLidarResult == [NoLidarResult EXCEPT !.err = TRUE]

\* ------------------------------------------------------------------------
\* Names: fmt's %d, strings.Split, strings.TrimSuffix, the tiles of the index
\* ------------------------------------------------------------------------

DigitChars == <<"0", "1", "2", "3", "4", "5", "6", "7", "8", "9">>

\* strconv.Itoa, fmt's %d
RECURSIVE Itoa(_)
Itoa(n) ==
    IF n < 0 THEN <<"-">> \o Itoa(0 - n)
    ELSE IF n < 10 THEN <<DigitChars[n + 1]>>
    ELSE Itoa(n \div 10) \o <<DigitChars[(n % 10) + 1]>>

\* strings.Split(s, sep) with a separator of one character
RECURSIVE Split(_, _)
Split(s, sep) ==
    LET at == { i \in 1..Len(s) : s[i] = sep }
    IN  IF at = {} THEN <<s>>
        ELSE <<SubSeq(s, 1, MinOf(at) - 1)>> \o Split(SubSeq(s, MinOf(at) + 1, Len(s)), sep)

\* strings.TrimSuffix(s, suffix)
TrimSuffix(s, suffix) ==
    IF Len(s) >= Len(suffix) /\ SubSeq(s, Len(s) - Len(suffix) + 1, Len(s)) = suffix
    THEN SubSeq(s, 1, Len(s) - Len(suffix))
    ELSE s

TifSuffix == <<".", "t", "i", "f">>

PngSuffix == <<".", "p", "n", "g">>

\* WFSTile (admin.go:103-112): the name of the tile, the name of its file,
\* and whether the index gives a URL for it
WFSTile(name, nameDownload, url) == [Name |-> name, NameDownload |-> nameDownload, URL |-> url]

\* the fields of a name with "_" between them
RECURSIVE JoinFields(_)
JoinFields(fields) ==
    IF Len(fields) = 1 THEN fields[1]
    ELSE fields[1] \o <<"_">> \o JoinFields(Tail(fields))

\* a tile as the index of IGN names it, "L_F_<x>_1_<product>_<variant>" after
\* "LHD_FXX_0599_6329_MNS_O_0M50_LAMB93_IGN69", with the file "<name>.tif"
IndexTile(x, product, variant) ==
    LET name == JoinFields(<< <<"L">>, <<"F">>, Itoa(x), <<"1">>, <<product>>, <<variant>> >>)
    IN  WFSTile(name, name \o TifSuffix, TRUE)

\* admin.go:423-430
tileGridKey(name) ==
    LET parts == Split(name, "_")
    IN  IF Len(parts) < 5 THEN <<>>
        ELSE parts[3] \o <<"_">> \o parts[4]

\* admin.go:399-405: mntMap, a later tile replacing an earlier one of its key
RECURSIVE mntMapOf(_)
mntMapOf(mnt) ==
    IF mnt = <<>> THEN [k \in {} |-> WFSTile(<<>>, <<>>, FALSE)]
    ELSE LET before == mntMapOf(SubSeq(mnt, 1, Len(mnt) - 1))
             t == mnt[Len(mnt)]
             key == tileGridKey(t.Name)
         IN  IF key = <<>> THEN before
             ELSE [k \in DOMAIN before \cup {key} |-> IF k = key THEN t ELSE before[k]]

\* admin.go:407-418: the loop over the MNS tiles
RECURSIVE pairUp(_, _)
pairUp(mns, mntMap) ==
    IF mns = <<>> THEN [mns |-> <<>>, mnt |-> <<>>]
    ELSE LET t == mns[1]
             key == tileGridKey(t.Name)
             rest == pairUp(Tail(mns), mntMap)
         IN  IF key = <<>> THEN rest
             ELSE IF key \in DOMAIN mntMap
             THEN [mns |-> <<t>> \o rest.mns, mnt |-> <<mntMap[key]>> \o rest.mnt]
             ELSE rest

\* the tiles paired by their position in the two answers
matchTilePairs_ByPosition(mns, mnt) ==
    LET n == IF Len(mns) < Len(mnt) THEN Len(mns) ELSE Len(mnt)
    IN  [mns |-> SubSeq(mns, 1, n), mnt |-> SubSeq(mnt, 1, n)]

\* admin.go:398-419
matchTilePairs(mns, mnt) == pairUp(mns, mntMapOf(mnt))

\* the content of the tile index: the MNS and the MNT tiles that intersect
\* the polygon
Index(mns, mnt) == [mns |-> mns, mnt |-> mnt]

NoIndex == Index(<<>>, <<>>)

MnsTiles(n) == [i \in 1..n |-> IndexTile(i, "S", "O")]

MntTiles(n) == [i \in 1..n |-> IndexTile(i, "T", "O")]

\* two MNS tiles of one grid position over one MNT tile
TwinIndex == Index(<<IndexTile(1, "S", "O"), IndexTile(1, "S", "C")>>, MntTiles(1))

\* an MNS tile without URL
NoURLIndex == Index(<<[IndexTile(1, "S", "O") EXCEPT !.URL = FALSE]>>, MntTiles(1))

\* a tile the index names by the given fields, without URL
NamedTile(fields) == WFSTile(JoinFields(fields), JoinFields(fields) \o TifSuffix, FALSE)

\* MNS tiles of an index answer: two of one grid position, one of another,
\* one with a name of four fields, one whose grid fields are empty
MnsPool ==
    { NamedTile(<< <<"L">>, <<"F">>, <<"1">>, <<"1">>, <<"S">>, <<"O">> >>),
      NamedTile(<< <<"L">>, <<"F">>, <<"1">>, <<"1">>, <<"S">>, <<"C">> >>),
      NamedTile(<< <<"L">>, <<"F">>, <<"2">>, <<"1">>, <<"S">>, <<"O">> >>),
      NamedTile(<< <<"L">>, <<"F">>, <<"1">>, <<"1">> >>),
      NamedTile(<< <<"L">>, <<"F">>, <<>>, <<>>, <<"S">> >>) }

\* MNT tiles of an index answer
MntPool ==
    { NamedTile(<< <<"L">>, <<"F">>, <<"1">>, <<"1">>, <<"T">>, <<"O">> >>),
      NamedTile(<< <<"L">>, <<"F">>, <<"1">>, <<"1">>, <<"T">>, <<"C">> >>),
      NamedTile(<< <<"L">>, <<"F">>, <<"2">>, <<"1">>, <<"T">>, <<"O">> >>),
      NamedTile(<< <<"L">>, <<"F">>, <<"1">>, <<"1">> >>),
      NamedTile(<< <<"L">>, <<"F">>, <<>>, <<>>, <<"T">> >>) }

\* ------------------------------------------------------------------------
\* LiDAR pipeline: AnalyzeLidar (admin.go:150-331), ServeCHMImage
\* (admin.go:334-340) and its route (main.go:88-96)
\* ------------------------------------------------------------------------

StatusNotFound == 404

VARIABLES
    lpc,        \* "idle" | "mns" | "mnt" | "tasks" | "png" | "done"
    lpoly,      \* the GeoJSON given to the running call
    lTiles,     \* len(mnsTiles), the number of features of the MNS index answer
    task,       \* fetch task -> "run" | "http" | "write" | "ok" | "err";
                \* task 2i-1 fetches the MNS tile of pair i, task 2i its MNT tile
    cancelled,  \* the request context is cancelled
    disk,       \* the files in tileCacheDir: name -> "open" (created or
                \* truncated, its bytes not yet all written) | "good" (a whole
                \* GeoTIFF) | "bad" (whole, and no GeoTIFF) | "png"
    llog,       \* what the running call did: requested a tile download, wrote a
                \* raster file, called computeCHM, wrote the PNG, wrote a file
                \* after the cancellation; the canopy heights it took its
                \* statistics from, the bounds it derived from the tiles and
                \* the id it created an image file for
    lres,       \* what the call returned
    wfs,        \* the content of the tile index
    lPairs,     \* mnsPairs and mntPairs of the running call
    data,       \* fetch task -> the bytes it holds and where it has them from
    lstat,      \* the result the call has built before its PNG is encoded
    chmServed   \* the last answer of GET /lidar/chm/:id

lidarVars ==
    <<lpc, lpoly, lTiles, task, cancelled, disk, llog, lres, wfs, lPairs, data, lstat, chmServed>>

NoLog ==
    [download |-> FALSE, raster |-> FALSE, chm |-> FALSE, png |-> FALSE, late |-> FALSE,
     canopy |-> <<>>, derived |-> ZeroBBox, put |-> <<>>]

NoBytes == [bytes |-> "none", cached |-> FALSE, sent |-> FALSE]

NoServed == [param |-> <<>>, status |-> 0, path |-> <<>>, put |-> FALSE]

NoFiles == [f \in {} |-> "none"]

LidarStart(index, files) ==
    /\ lpc = "idle"
    /\ lpoly = NoLidarDoc
    /\ lTiles = 0
    /\ task = <<>>
    /\ cancelled = FALSE
    /\ disk = files
    /\ llog = NoLog
    /\ lres = NoLidarResult
    /\ wfs = index
    /\ lPairs = Index(<<>>, <<>>)
    /\ data = <<>>
    /\ lstat = NoLidarResult
    /\ chmServed = NoServed

LidarIdle == LidarStart(NoIndex, NoFiles)

FilesOf(tiles) == { tiles[i].NameDownload : i \in 1..Len(tiles) }

\* the disk cache before the call: empty, every tile, or the MNS tiles only
DiskContents(index) ==
    { NoFiles,
      [f \in FilesOf(index.mns) \cup FilesOf(index.mnt) |-> "good"],
      [f \in FilesOf(index.mns) |-> "good"] }

\* os.Stat and os.ReadFile of a name in tileCacheDir
FileState(f) == IF f \in DOMAIN disk THEN disk[f] ELSE "none"

\* the files after bytes were written under a name
WriteFile(f, content) ==
    [g \in DOMAIN disk \cup {f} |-> IF g = f THEN content ELSE disk[g]]

\* the numbers of features the index service answers with; the query asks
\* for at most maxLidarTiles + 5 (admin.go:351)
IndexCounts == {0, 1, maxLidarTiles, maxLidarTiles + 1, maxLidarTiles + 5}

\* the index over no tile, one tile, the cap, more than the cap, and over one
\* MNT tile for each of up to MaxPairs MNS tiles
LidarIndexes ==
    { Index(MnsTiles(n), MntTiles(m)) : n \in IndexCounts, m \in {0, 1} }
    \cup { Index(MnsTiles(n), MntTiles(n)) : n \in 2..MaxPairs }
    \cup { TwinIndex, NoURLIndex }

\* the cap compared with the COUNT of the index query
tooManyTiles_QueryCount(n) == n > maxLidarTiles + 5

\* admin.go:170
tooManyTiles(n) == n > maxLidarTiles

LidarReturn(r) ==
    /\ lpc' = "done"
    /\ lres' = r

\* admin.go:150-155: the call, and the bbox of the polygon
AnalyzeLidar(d) ==
    /\ lpc = "idle"
    /\ lpoly' = d
    /\ lTiles' = 0
    /\ task' = <<>>
    /\ cancelled' = FALSE
    /\ llog' = NoLog
    /\ IF geojsonBBox(d).err
       THEN LidarReturn(ErrLidarResult)
       ELSE lpc' = "mns" /\ lres' = NoLidarResult
    /\ UNCHANGED <<disk, wfs, lPairs, data, lstat, chmServed>>

\* the client goes away or the deadline passes
Cancel ==
    /\ lpc \in {"mns", "mnt", "tasks"}
    /\ ~cancelled
    /\ cancelled' = TRUE
    /\ UNCHANGED <<lpc, lpoly, lTiles, task, disk, llog, lres, wfs, lPairs, data, lstat, chmServed>>

\* admin.go:157-175 with queryWFSTiles (344-392): the MNS index query; an
\* HTTP call with a cancelled context returns an error
queryMNS ==
    /\ lpc = "mns"
    /\ \E failed \in BOOLEAN :
         IF cancelled \/ failed
         THEN LidarReturn(ErrLidarResult) /\ UNCHANGED lTiles
         ELSE LET mnsTiles == wfs.mns
              IN  /\ lTiles' = Len(mnsTiles)
                  /\ IF Len(mnsTiles) = 0
                     THEN LidarReturn(LidarResult(FALSE, [kind |-> "NoCoverage", n |-> 0, max |-> 0]))
                     ELSE IF tooManyTiles(Len(mnsTiles))
                     THEN LidarReturn(LidarResult(FALSE,
                              [kind |-> "AreaTooLarge", n |-> Len(mnsTiles), max |-> maxLidarTiles]))
                     ELSE lpc' = "mnt" /\ UNCHANGED lres
    /\ UNCHANGED <<lpoly, task, cancelled, disk, llog, wfs, lPairs, data, lstat, chmServed>>

\* admin.go:177-217 with matchTilePairs (398-419): the MNT index query, the
\* pairing, and the start of the 2n goroutines
queryMNT ==
    /\ lpc = "mnt"
    /\ \E failed \in BOOLEAN :
         IF cancelled \/ failed
         THEN LidarReturn(ErrLidarResult) /\ UNCHANGED <<task, lPairs, data>>
         ELSE LET pairs == matchTilePairs(wfs.mns, wfs.mnt)
                  nPairs == Len(pairs.mns)
              IN  IF nPairs = 0
                  THEN /\ LidarReturn(LidarResult(FALSE, [kind |-> "MntMissing", n |-> 0, max |-> 0]))
                       /\ UNCHANGED <<task, lPairs, data>>
                  ELSE /\ lPairs' = pairs
                       /\ task' = [i \in 1..(2 * nPairs) |-> "run"]
                       /\ data' = [i \in 1..(2 * nPairs) |-> NoBytes]
                       /\ lpc' = "tasks"
                       /\ UNCHANGED lres
    /\ UNCHANGED <<lpoly, lTiles, cancelled, disk, llog, wfs, lstat, chmServed>>

\* admin.go:205-215: the tile the goroutine of task i is given
tileOf(i) == IF i % 2 = 1 THEN lPairs.mns[(i + 1) \div 2] ELSE lPairs.mnt[i \div 2]

\* admin.go:435  filepath.Join(tileCacheDir, tile.NameDownload)
cachePath(t) == t.NameDownload

\* ParseGeoTIFF of the bytes of a file: a whole GeoTIFF decodes; other bytes,
\* or the part of a file written so far, do not
decodes(bytes) == bytes = "good"

\* admin.go:434-460: downloadAndParseTile up to its HTTP request. A file of
\* the disk cache is read and parsed without a look at the context; without
\* one the request is built (or no URL can be built) and sent.
taskStart(i) ==
    /\ lpc = "tasks"
    /\ task[i] = "run"
    /\ LET cached == FileState(cachePath(tileOf(i)))
       IN  IF cached /= "none"
           THEN /\ task' = [task EXCEPT ![i] = IF decodes(cached) THEN "ok" ELSE "err"]
                /\ data' = [data EXCEPT ![i] = [NoBytes EXCEPT !.bytes = cached, !.cached = TRUE]]
                /\ UNCHANGED llog
           ELSE IF ~tileOf(i).URL
           THEN /\ task' = [task EXCEPT ![i] = "err"]
                /\ UNCHANGED <<data, llog>>
           ELSE /\ task' = [task EXCEPT ![i] = "http"]
                /\ data' = [data EXCEPT ![i] = [NoBytes EXCEPT !.sent = TRUE]]
                /\ llog' = [llog EXCEPT !.download = TRUE]
    /\ UNCHANGED <<lpc, lpoly, lTiles, cancelled, disk, lres, wfs, lPairs, lstat, chmServed>>

\* admin.go:457-473: the response of the raster service is read, which fails
\* once the context is cancelled; os.WriteFile then creates or truncates the
\* file of the tile
taskHttp(i) ==
    /\ lpc = "tasks"
    /\ task[i] = "http"
    /\ \E answer \in {"fail", "good", "bad"} :
         IF cancelled \/ answer = "fail"
         THEN /\ task' = [task EXCEPT ![i] = "err"]
              /\ UNCHANGED <<data, disk, llog>>
         ELSE /\ task' = [task EXCEPT ![i] = "write"]
              /\ data' = [data EXCEPT ![i].bytes = answer]
              /\ disk' = WriteFile(cachePath(tileOf(i)), "open")
              /\ llog' = [llog EXCEPT !.raster = TRUE]
    /\ UNCHANGED <<lpc, lpoly, lTiles, cancelled, lres, wfs, lPairs, lstat, chmServed>>

\* admin.go:473-475: os.WriteFile has written the bytes, and they are parsed
taskStore(i) ==
    /\ lpc = "tasks"
    /\ task[i] = "write"
    /\ disk' = WriteFile(cachePath(tileOf(i)), data[i].bytes)
    /\ llog' = [llog EXCEPT !.late = @ \/ cancelled]
    /\ task' = [task EXCEPT ![i] = IF decodes(data[i].bytes) THEN "ok" ELSE "err"]
    /\ UNCHANGED <<lpc, lpoly, lTiles, cancelled, lres, wfs, lPairs, data, lstat, chmServed>>

\* the collection loop returning only at a failed MNS task
firstTaskError_MnsOnly(t) == \E i \in DOMAIN t : i % 2 = 1 /\ t[i] = "err"

\* admin.go:221-227: the collection loop returns at the first failed task
firstTaskError(t) == \E i \in DOMAIN t : t[i] = "err"

\* the wait ending when the MNS tasks have returned
wgWait_MnsOnly(t) == \A i \in DOMAIN t : i % 2 = 1 => t[i] \in {"ok", "err"}

\* the wait ending at the first failed task
wgWait_UntilFirstError(t) ==
    \/ \A i \in DOMAIN t : t[i] \in {"ok", "err"}
    \/ \E i \in DOMAIN t : t[i] = "err"

\* admin.go:203-217: wg.Wait returns when each of the 2n goroutines has
\* called wg.Done
wgWait(t) == \A i \in DOMAIN t : t[i] \in {"ok", "err"}

\* the values of time.Now().UnixNano() (admin.go:301)
Clock == {1, 2}

\* admin.go:301  fmt.Sprintf("chm_%d", ...)
imageIDAt(now) == <<"c", "h", "m", "_">> \o Itoa(now)

\* admin.go:615, 335  filepath.Join(tileCacheDir, imageID+".png")
pngPath(imageID) == imageID \o PngSuffix

\* admin.go:219-311, 314-330: after wg.Wait, the collection of the rasters,
\* the CHMs, the statistics, the bounds, and generateCHMImage (570-623) up to
\* os.Create; sc and g are what the tiles decoded to
finish(sc, g, now, created) ==
    LET n == Len(task) \div 2
        mnsRasters == [i \in 1..n |-> SceneMns(sc, i, g)]
        mntRasters == [i \in 1..n |-> SceneMnt(sc, i, g)]
        all == allCHM(mnsRasters, mntRasters, 1)
        canopyVals == sortAsc(canopyOf(all))
        bbox == geojsonBBox(lpoly).bbox
        imageID == imageIDAt(now)
    IN  IF firstTaskError(task)
        THEN LidarReturn(ErrLidarResult) /\ UNCHANGED <<llog, disk, lstat>>
        ELSE IF Len(all) = 0
        THEN /\ LidarReturn(LidarResult(TRUE, [kind |-> "AllNoData", n |-> 0, max |-> 0]))
             /\ llog' = [llog EXCEPT !.chm = TRUE]
             /\ UNCHANGED <<disk, lstat>>
        ELSE IF Len(canopyVals) = 0
        THEN /\ LidarReturn(LidarResult(TRUE, [kind |-> "NoCanopy", n |-> 0, max |-> 0]))
             /\ llog' = [llog EXCEPT !.chm = TRUE]
             /\ UNCHANGED <<disk, lstat>>
        ELSE IF ~created
        THEN /\ LidarReturn(ErrLidarResult)
             /\ llog' = [llog EXCEPT !.chm = TRUE]
             /\ UNCHANGED <<disk, lstat>>
        ELSE /\ lpc' = "png"
             /\ disk' = WriteFile(pngPath(imageID), "open")
             /\ lstat' =
                  [LidarResult(TRUE, NoMessage) EXCEPT
                     !.MinHeight = round2(canopyVals[1], 1),
                     !.MaxHeight = round2(canopyVals[Len(canopyVals)], 1),
                     !.MeanHeight = round2(sumOf(canopyVals), Len(canopyVals)),
                     !.MedianHeight = round2(medianOf(canopyVals), 1),
                     !.CHMImageID = imageID,
                     !.Bounds = resultBounds(mergedBBox(mnsRasters, n), mnsRasters[1].EPSG, bbox)]
             /\ llog' = [llog EXCEPT !.chm = TRUE, !.late = @ \/ cancelled,
                                     !.canopy = canopyOf(all),
                                     !.derived = estimateWGS84Bounds(mergedBBox(mnsRasters, n),
                                                                     mnsRasters[1].EPSG),
                                     !.put = imageID]
             /\ UNCHANGED lres

collect ==
    /\ lpc = "tasks"
    /\ wgWait(task)
    /\ \E sc \in Scenes, g \in GeoRefs, now \in Clock, created \in BOOLEAN :
         finish(sc, g, now, created)
    /\ UNCHANGED <<lpoly, lTiles, task, cancelled, wfs, lPairs, data, chmServed>>

\* the result handed out although the PNG is not yet encoded
encodePNG_ReturnsFirst ==
    /\ lpc = "png"
    /\ LidarReturn(lstat)
    /\ llog' = [llog EXCEPT !.png = TRUE]
    /\ UNCHANGED <<lpoly, lTiles, task, cancelled, disk, wfs, lPairs, data, lstat, chmServed>>

\* admin.go:622 and 309-330: png.Encode writes the image, and the result is
\* returned; when it fails the call returns an error and the file stays
encodePNG ==
    /\ lpc = "png"
    /\ \E encoded \in BOOLEAN :
         IF encoded
         THEN /\ disk' = WriteFile(pngPath(lstat.CHMImageID), "png")
              /\ llog' = [llog EXCEPT !.png = TRUE]
              /\ LidarReturn(lstat)
         ELSE /\ LidarReturn(ErrLidarResult)
              /\ UNCHANGED <<disk, llog>>
    /\ UNCHANGED <<lpoly, lTiles, task, cancelled, wfs, lPairs, data, lstat, chmServed>>

\* admin.go:334-340
ServeCHMImage(imageID) ==
    IF FileState(pngPath(imageID)) = "none"
    THEN [err |-> TRUE, path |-> <<>>]
    ELSE [err |-> FALSE, path |-> pngPath(imageID)]

\* the ids clients ask the image route for: ids of the image store with and
\* without ".png", and the name of a raster
ImageParams ==
    { imageIDAt(now) : now \in Clock }
    \cup { imageIDAt(now) \o PngSuffix : now \in Clock }
    \cup { imageIDAt(0), IndexTile(1, "S", "O").Name }

\* main.go:88-96  GET /lidar/chm/:id
GetCHMImage(param) ==
    LET imageID == TrimSuffix(param, PngSuffix)
        served == ServeCHMImage(imageID)
    IN  /\ chmServed' = [param |-> param,
                         status |-> IF served.err THEN StatusNotFound ELSE StatusOK,
                         path |-> served.path,
                         put |-> llog.put /= <<>> /\ imageID = llog.put]
        /\ UNCHANGED <<lpc, lpoly, lTiles, task, cancelled, disk, llog, lres, wfs, lPairs, data, lstat>>

\* ------------------------------------------------------------------------
\* ParseGeoTIFF (backend/internal/geo/geotiff.go)
\* ------------------------------------------------------------------------
\* A buffer is its sequence of bytes, data[off] of the code being
\* buf[off + 1] here.  The decoder is followed for its outcome: the
\* raster's dimensions, an error, or a run-time panic of the Go program
\* (index or slice out of range, integer division by zero).  The pixel
\* values, the NoData tag and the geo-referencing tags (231-248, 326-375)
\* are left out.

\* geotiff.go:25-37
tagImageWidth == 256
tagImageLength == 257
tagBitsPerSample == 258
tagCompression == 259
tagStripOffsets == 273
tagRowsPerStrip == 278
tagStripByteCounts == 279
tagTileWidth == 322
tagTileLength == 323
tagTileOffsets == 324
tagTileByteCounts == 325
tagSampleFormat == 339

\* geotiff.go:46-51
tiffByte == 1
tiffASCII == 2
tiffShort == 3
tiffLong == 4
tiffFloat == 11
tiffDouble == 12

\* geotiff.go:64, 66: "II" and "MM" as bytes
LittleEndian == <<73, 73>>
BigEndian == <<77, 77>>

\* geotiff.go:73
tiffMagic == 42

\* geotiff.go:224, 227
floatBits == 32
floatFormat == 3

\* geotiff.go:404, 406
compressionNone == 1
compressionDeflate == 8
compressionDeflateNew == 32946

\* encoding/binary: ByteOrder.Uint16 and Uint32 of b[off:], for a slice that
\* is long enough
Uint16(bo, b, off) ==
    IF bo = LittleEndian
    THEN b[off + 1] + 256 * b[off + 2]
    ELSE 256 * b[off + 1] + b[off + 2]

Uint32(bo, b, off) ==
    IF bo = LittleEndian
    THEN Uint16(bo, b, off) + 65536 * Uint16(bo, b, off + 2)
    ELSE 65536 * Uint16(bo, b, off) + Uint16(bo, b, off + 2)

\* encoding/binary: ByteOrder.PutUint16 and PutUint32
PutUint16(bo, v) ==
    IF bo = LittleEndian
    THEN <<v % 256, v \div 256>>
    ELSE <<v \div 256, v % 256>>

PutUint32(bo, v) ==
    IF bo = LittleEndian
    THEN PutUint16(bo, v % 65536) \o PutUint16(bo, v \div 65536)
    ELSE PutUint16(bo, v \div 65536) \o PutUint16(bo, v % 65536)

\* the outcome of a read that indexes or slices past the end of its slice
Panicked == -1

TiffRaster(width, height) == [kind |-> "raster", why |-> "", Width |-> width, Height |-> height]
TiffError(why) == [kind |-> "error", why |-> why, Width |-> 0, Height |-> 0]
TiffPanic(why) == [kind |-> "panic", why |-> why, Width |-> 0, Height |-> 0]
NotParsed == [kind |-> "none", why |-> "", Width |-> 0, Height |-> 0]

\* geotiff.go:380-393
typeSize(dtype) ==
    CASE dtype \in {tiffByte, tiffASCII} -> 1
      [] dtype = tiffShort -> 2
      [] dtype \in {tiffLong, tiffFloat} -> 4
      [] dtype = tiffDouble -> 8
      [] OTHER -> 1

\* geotiff.go:101-106: the entry at pos
ifdEntry(buf, bo, pos) ==
    [tag |-> Uint16(bo, buf, pos), dtype |-> Uint16(bo, buf, pos + 2),
     count |-> Uint32(bo, buf, pos + 4), valOff |-> Uint32(bo, buf, pos + 8)]

\* geotiff.go:111-118: the index of the first entry with the tag, 0 for nil
getEntry(entries, tag) ==
    IF \E i \in DOMAIN entries : entries[i].tag = tag
    THEN CHOOSE i \in DOMAIN entries :
            /\ entries[i].tag = tag
            /\ \A j \in 1..(i - 1) : entries[j].tag /= tag
    ELSE 0

\* geotiff.go:140-164
getUint32Value(buf, bo, entries, tag) ==
    LET k == getEntry(entries, tag) IN
    IF k = 0 THEN 0
    ELSE LET e == entries[k]
             sz == typeSize(e.dtype) * e.count
         IN IF sz <= 4
            THEN IF e.dtype = tiffShort /\ e.count = 1
                 THEN Uint16(bo, PutUint32(bo, e.valOff), 0)
                 ELSE e.valOff
            ELSE IF e.dtype = tiffLong
                 THEN IF e.valOff + 4 > Len(buf) THEN Panicked
                      ELSE Uint32(bo, buf, e.valOff)
                 ELSE IF e.dtype = tiffShort
                 THEN IF e.valOff + 2 > Len(buf) THEN Panicked
                      ELSE Uint16(bo, buf, e.valOff)
                 ELSE e.valOff

\* geotiff.go:167-194: the array, <<>> for nil, <<Panicked>> when a read
\* leaves src
readUint32Array(buf, bo, entries, tag) ==
    LET k == getEntry(entries, tag) IN
    IF k = 0 THEN <<>>
    ELSE LET e == entries[k]
             n == e.count
             sz == typeSize(e.dtype) * n
             width == IF e.dtype = tiffShort THEN 2 ELSE 4
         IN IF sz > 4 /\ e.valOff + sz > Len(buf) THEN <<>>
            ELSE LET src == IF sz <= 4 THEN PutUint32(bo, e.valOff)
                            ELSE SubSeq(buf, e.valOff + 1, Len(buf))
                 IN IF \E i \in 0..(n - 1) : i * width + width > Len(src)
                    THEN <<Panicked>>
                    ELSE [i \in 1..n |->
                            IF e.dtype = tiffShort
                            THEN Uint16(bo, src, (i - 1) * 2)
                            ELSE Uint32(bo, src, (i - 1) * 4)]

\* geotiff.go:395-416: "" when the chunk is returned, else the error;
\* compress/zlib is not followed: inflates tells whether it accepts the
\* chunk
decompressChunk(buf, offset, byteCount, compression, inflates) ==
    IF offset + byteCount > Len(buf) THEN "chunk out of bounds"
    ELSE CASE compression = compressionNone -> ""
           [] compression \in {compressionDeflate, compressionDeflateNew} ->
                 IF inflates THEN "" ELSE "zlib"
           [] OTHER -> "unsupported compression type"

\* geotiff.go:275-287: the tiles are decoded in the order of their index;
\* the outcome of the first one that does not decode, "" when all do
RECURSIVE tileLoop(_, _, _, _, _, _, _)
tileLoop(buf, idx, tiles, offsets, byteCounts, compression, inflates) ==
    IF idx >= tiles \/ idx >= Len(offsets) THEN TiffRaster(0, 0)
    ELSE IF idx >= Len(byteCounts) THEN TiffPanic("index out of range")
    ELSE LET err == decompressChunk(buf, offsets[idx + 1], byteCounts[idx + 1],
                                    compression, inflates)
         IN IF err /= "" THEN TiffError(err)
            ELSE tileLoop(buf, idx + 1, tiles, offsets, byteCounts, compression, inflates)

\* geotiff.go:302-323
RECURSIVE stripLoop(_, _, _, _, _, _)
stripLoop(buf, i, offsets, byteCounts, compression, inflates) ==
    IF i >= Len(offsets) THEN TiffRaster(0, 0)
    ELSE LET bc == IF i < Len(byteCounts) THEN byteCounts[i + 1] ELSE 0
             err == decompressChunk(buf, offsets[i + 1], bc, compression, inflates)
         IN IF err /= "" THEN TiffError(err)
            ELSE stripLoop(buf, i + 1, offsets, byteCounts, compression, inflates)

\* geotiff.go:262-287
readTiles(buf, bo, entries, width, height, compression, inflates) ==
    LET tw == getUint32Value(buf, bo, entries, tagTileWidth)
        th == getUint32Value(buf, bo, entries, tagTileLength)
        offsets == readUint32Array(buf, bo, entries, tagTileOffsets)
        byteCounts == readUint32Array(buf, bo, entries, tagTileByteCounts)
    IN IF Panicked \in {tw, th} \/ offsets = <<Panicked>> \/ byteCounts = <<Panicked>>
       THEN TiffPanic("index out of range")
       ELSE IF Len(offsets) = 0 THEN TiffError("no tile offsets")
       ELSE IF tw = 0 \/ th = 0 THEN TiffPanic("integer divide by zero")
       ELSE LET tilesX == (width + tw - 1) \div tw
                tilesY == (height + th - 1) \div th
                out == tileLoop(buf, 0, tilesX * tilesY, offsets, byteCounts,
                                compression, inflates)
            IN IF out.kind = "raster" THEN TiffRaster(width, height) ELSE out

\* geotiff.go:288-324
readStrips(buf, bo, entries, width, height, compression, inflates) ==
    LET rowsPerStrip == getUint32Value(buf, bo, entries, tagRowsPerStrip)
        offsets == readUint32Array(buf, bo, entries, tagStripOffsets)
        byteCounts == readUint32Array(buf, bo, entries, tagStripByteCounts)
    IN IF rowsPerStrip = Panicked \/ offsets = <<Panicked>> \/ byteCounts = <<Panicked>>
       THEN TiffPanic("index out of range")
       ELSE IF Len(offsets) = 0 THEN TiffError("no strip offsets")
       ELSE LET out == stripLoop(buf, 0, offsets, byteCounts, compression, inflates)
            IN IF out.kind = "raster" THEN TiffRaster(width, height) ELSE out

\* geotiff.go:88-378
parseIFD(buf, bo, offset, inflates) ==
    IF offset + 2 > Len(buf) THEN TiffError("IFD offset out of range")
    ELSE LET numEntries == Uint16(bo, buf, offset) IN
    IF \E i \in 0..(numEntries - 1) : offset + 2 + 12 * i + 12 > Len(buf)
    THEN TiffError("truncated IFD entry")
    ELSE LET entries == [i \in 1..numEntries |-> ifdEntry(buf, bo, offset + 2 + 12 * (i - 1))]
             width == getUint32Value(buf, bo, entries, tagImageWidth)
             height == getUint32Value(buf, bo, entries, tagImageLength)
             compression == getUint32Value(buf, bo, entries, tagCompression)
             bitsPerSample == getUint32Value(buf, bo, entries, tagBitsPerSample)
             read == getUint32Value(buf, bo, entries, tagSampleFormat)
             sampleFormat == IF read = 0 THEN 1 ELSE read
         IN IF Panicked \in {width, height, compression, bitsPerSample, read}
            THEN TiffPanic("index out of range")
            ELSE IF width = 0 \/ height = 0 THEN TiffError("zero image dimensions")
            ELSE IF bitsPerSample /= floatBits THEN TiffError("expected 32 bits/sample")
            ELSE IF sampleFormat /= floatFormat THEN TiffError("expected float sample format")
            ELSE IF getEntry(entries, tagTileWidth) /= 0
                 THEN readTiles(buf, bo, entries, width, height, compression, inflates)
                 ELSE readStrips(buf, bo, entries, width, height, compression, inflates)

\* geotiff.go:56-79
ParseGeoTIFF(buf, inflates) ==
    IF Len(buf) < 8 THEN TiffError("buf too short")
    ELSE LET bo == SubSeq(buf, 1, 2) IN
         IF bo \notin {LittleEndian, BigEndian} THEN TiffError("invalid byte order marker")
         ELSE IF Uint16(bo, buf, 2) /= tiffMagic THEN TiffError("not a TIFF file")
         ELSE parseIFD(buf, bo, Uint32(bo, buf, 4), inflates)

\* ---- the buffers given to the decoder ----

\* an IFD entry of one SHORT or one LONG, the value inside the entry
ShortEntry(bo, tag, v) ==
    PutUint16(bo, tag) \o PutUint16(bo, tiffShort) \o PutUint32(bo, 1) \o PutUint16(bo, v) \o <<0, 0>>

LongEntry(bo, tag, v) ==
    PutUint16(bo, tag) \o PutUint16(bo, tiffLong) \o PutUint32(bo, 1) \o PutUint32(bo, v)

\* an IFD entry of n LONGs: inside the entry when n = 1, at offset at
\* otherwise
LongsEntry(bo, tag, vals, at) ==
    IF Len(vals) = 1 THEN LongEntry(bo, tag, vals[1])
    ELSE PutUint16(bo, tag) \o PutUint16(bo, tiffLong) \o PutUint32(bo, Len(vals)) \o PutUint32(bo, at)

RECURSIVE Flatten(_)
Flatten(seqs) == IF seqs = <<>> THEN <<>> ELSE Head(seqs) \o Flatten(Tail(seqs))

Zeros(n) == [i \in 1..n |-> 0]

\* bytes of one chunk: one row of ImageCols float32 samples
ChunkBytes == 4 * ImageCols

\* The file of a description d: a header, one IFD, the offset and byte-count
\* arrays when they have more than one element, and MaxChunks chunks of one
\* row each.  d.head says what is wrong with the header or where the buffer
\* ends, d.sample and d.compression give the tags 258, 339 and 259 (0: no
\* tag), d.tiled the layout with the tile size d.tile, d.offsets and
\* d.counts the lengths of the two arrays (0: no tag), and d.reach whether
\* the chunks lie inside the buffer.
TiffOf(d) ==
    LET bo == IF d.head = "MM" THEN BigEndian ELSE LittleEndian
        mark == IF d.head = "order" THEN <<88, 88>> ELSE bo
        magic == IF d.head = "magic" THEN tiffMagic + 1 ELSE tiffMagic
        nEntries == 4 + (IF d.sample.format = 0 THEN 0 ELSE 1)
                      + (IF d.tiled THEN 2 ELSE 1)
                      + (IF d.offsets = 0 THEN 0 ELSE 1)
                      + (IF d.counts = 0 THEN 0 ELSE 1)
        offsetsAt == 8 + 2 + 12 * nEntries + 4
        countsAt == offsetsAt + (IF d.offsets > 1 THEN 4 * d.offsets ELSE 0)
        chunksAt == countsAt + (IF d.counts > 1 THEN 4 * d.counts ELSE 0)
        size == chunksAt + ChunkBytes * MaxChunks
        shift == IF d.reach = "inside" THEN 0 ELSE size
        offsets == [i \in 1..d.offsets |-> chunksAt + ChunkBytes * (i - 1) + shift]
        counts == [i \in 1..d.counts |-> ChunkBytes]
        entries ==
            <<LongEntry(bo, tagImageWidth, ImageCols),
              LongEntry(bo, tagImageLength, MaxChunks),
              ShortEntry(bo, tagBitsPerSample, d.sample.bits),
              ShortEntry(bo, tagCompression, d.compression)>>
            \o (IF d.tiled
                THEN <<ShortEntry(bo, tagTileWidth, d.tile.tw),
                       ShortEntry(bo, tagTileLength, d.tile.th)>>
                ELSE <<ShortEntry(bo, tagRowsPerStrip, 1)>>)
            \o (IF d.offsets = 0 THEN <<>>
                ELSE <<LongsEntry(bo, IF d.tiled THEN tagTileOffsets ELSE tagStripOffsets,
                                  offsets, offsetsAt)>>)
            \o (IF d.counts = 0 THEN <<>>
                ELSE <<LongsEntry(bo, IF d.tiled THEN tagTileByteCounts ELSE tagStripByteCounts,
                                  counts, countsAt)>>)
            \o (IF d.sample.format = 0 THEN <<>>
                ELSE <<ShortEntry(bo, tagSampleFormat, d.sample.format)>>)
        whole ==
            mark \o PutUint16(bo, magic) \o PutUint32(bo, 8)
            \o PutUint16(bo, nEntries) \o Flatten(entries) \o PutUint32(bo, 0)
            \o (IF d.offsets > 1 THEN Flatten([i \in 1..d.offsets |-> PutUint32(bo, offsets[i])]) ELSE <<>>)
            \o (IF d.counts > 1 THEN Flatten([i \in 1..d.counts |-> PutUint32(bo, counts[i])]) ELSE <<>>)
            \o Zeros(ChunkBytes * MaxChunks)
    IN CASE d.head = "short" -> SubSeq(whole, 1, 7)
         [] d.head = "cut" -> SubSeq(whole, 1, 8 + 2 + 12 * 2 + 5)
         [] OTHER -> whole

TiffHeads == {"II", "MM", "order", "magic", "short", "cut"}

TiffSamples ==
    { [bits |-> floatBits, format |-> floatFormat], [bits |-> 16, format |-> floatFormat],
      [bits |-> floatBits, format |-> 1], [bits |-> floatBits, format |-> 0] }

TiffCompressions == {compressionNone, compressionDeflate, 5}

TiffTileSizes == { [tw |-> ImageCols, th |-> 1], [tw |-> 0, th |-> 1], [tw |-> ImageCols, th |-> 0] }

TiffDescs ==
    [head : TiffHeads, sample : TiffSamples, compression : TiffCompressions,
     tiled : BOOLEAN, tile : TiffTileSizes, offsets : 0..MaxChunks,
     counts : 0..MaxChunks, reach : {"inside", "outside"}]

VARIABLES
    gtDesc,     \* the description of the buffer
    gtData,     \* the buffer given to ParseGeoTIFF
    gtRes       \* what ParseGeoTIFF ended with

geotiffVars == <<gtDesc, gtData, gtRes>>

GeoTiffStart(d) == gtDesc = d /\ gtData = TiffOf(d) /\ gtRes = NotParsed

\* a buffer of seven bytes that is not decoded
GeoTiffIdle ==
    GeoTiffStart([head |-> "short", sample |-> [bits |-> floatBits, format |-> floatFormat],
                  compression |-> compressionNone, tiled |-> FALSE,
                  tile |-> [tw |-> ImageCols, th |-> 1], offsets |-> 1, counts |-> 1,
                  reach |-> "inside"])

\* a call of ParseGeoTIFF(data)
Parse ==
    /\ gtRes = NotParsed
    /\ \E inflates \in BOOLEAN : gtRes' = ParseGeoTIFF(gtData, inflates)
    /\ UNCHANGED <<gtDesc, gtData>>

\* ------------------------------------------------------------------------
\* Tile paths built from coordinates
\* ------------------------------------------------------------------------
\* A client formats the coordinates of a tile into the path
\* /tiles/<route>/[<layer>/]<z>/<x>/<y> with or without ".mvt" after y, and
\* the handler parses the path parameters and builds its cache key.

VARIABLES
    coord,      \* the coordinates and the route the client asks for
    parsedAs    \* per form of the path: what the handler made of it

pathVars == <<coord, parsedAs>>

PathForms == {"plain", "mvt"}

NoPath == [asked |-> FALSE, yRaw |-> <<>>, stripped |-> <<>>,
           err |-> FALSE, z |-> 0, x |-> 0, y |-> 0, key |-> <<>>]

PathStart(c) == coord = c /\ parsedAs = [f \in PathForms |-> NoPath]

PathIdle == PathStart([route |-> "foret", layer |-> "", z |-> 0, x |-> 0, y |-> 0])

TileCoords ==
    [route : {"foret", "cadastre"}, layer : {""}, z : 0..MaxZoom, x : {0, MaxTileXY}, y : 0..MaxTileXY]
    \cup [route : {"admin"}, layer : {"communes"}, z : {0, MaxZoom}, x : {0, MaxTileXY}, y : 0..MaxTileXY]

\* handler.go:102-107, 119-124, 137-142: the handler on the path of form f
ParsePath(f) ==
    /\ ~parsedAs[f].asked
    /\ LET yRaw == IF f = "mvt" THEN Itoa(coord.y) \o MvtSuffix ELSE Itoa(coord.y)
           p == parseTileParams(Itoa(coord.z), Itoa(coord.x), yRaw)
       IN parsedAs' = [parsedAs EXCEPT ![f] =
             [asked |-> TRUE, yRaw |-> yRaw, stripped |-> StripMvt(yRaw),
              err |-> p.err, z |-> p.z, x |-> p.x, y |-> p.y,
              key |-> IF p.err THEN <<>>
                      ELSE CacheKey(coord.route, coord.layer, p.z, p.x, p.y)]]
    /\ UNCHANGED coord

\* ------------------------------------------------------------------------
\* auth.Middleware (backend/internal/auth/auth.go)
\* ------------------------------------------------------------------------
\* A token is a short string; which tokens ValidateToken accepts, and for
\* whom, is the table IssuedTokens (the JWT library is not followed).

\* strings.CutPrefix(s, prefix)
CutPrefix(s, prefix) ==
    IF Len(s) >= Len(prefix) /\ SubSeq(s, 1, Len(prefix)) = prefix
    THEN [after |-> SubSeq(s, Len(prefix) + 1, Len(s)), ok |-> TRUE]
    ELSE [after |-> s, ok |-> FALSE]

\* auth.go:108
BearerPrefix == <<"B", "e", "a", "r", "e", "r", " ">>

\* tokens signed with the secret: "a" and "b" are in date, "x" has expired
IssuedTokens ==
    { [token |-> <<"a">>, UserID |-> "alice", expired |-> FALSE],
      [token |-> <<"b">>, UserID |-> "bob", expired |-> FALSE],
      [token |-> <<"x">>, UserID |-> "alice", expired |-> TRUE] }

\* the tokens a request carries: the issued ones and a forged one
TokenStrings == { t.token : t \in IssuedTokens } \cup { <<"f">> }

\* auth.go:72-89
ValidateToken(tokenString) ==
    IF \E t \in IssuedTokens : t.token = tokenString /\ ~t.expired
    THEN [err |-> FALSE,
          UserID |-> (CHOOSE t \in IssuedTokens : t.token = tokenString).UserID]
    ELSE [err |-> TRUE, UserID |-> ""]

VARIABLES
    authReq,    \* the request: its auth_token cookie and Authorization header
    authPc,     \* "start", "handler" (next(c) was called), "done"
    authCtx,    \* the user published on the request context, "" when none
    authResp    \* the status the handler answered with

authVars == <<authReq, authPc, authCtx, authResp>>

NoCookie == [present |-> FALSE, Value |-> <<>>]
Cookie(v) == [present |-> TRUE, Value |-> v]

AuthStart(r) == authReq = r /\ authPc = "start" /\ authCtx = "" /\ authResp = 0

AuthIdle == AuthStart([cookie |-> NoCookie, header |-> <<>>])

AuthCookies == {NoCookie, Cookie(<<>>)} \cup { Cookie(t) : t \in TokenStrings }

AuthHeaders ==
    { <<>>, BearerPrefix, <<"b", "e", "a", "r", "e", "r", " ", "a">>,
      <<"B", "a", "s", "i", "c", " ", "a">> }
    \cup { BearerPrefix \o t : t \in TokenStrings }

AuthRequests == [cookie : AuthCookies, header : AuthHeaders]

\* auth.go:96-111: the token string the middleware validates
tokenStringOf(r) ==
    LET fromCookie == IF r.cookie.present THEN r.cookie.Value ELSE <<>>
        cut == CutPrefix(r.header, BearerPrefix)
    IN  IF fromCookie /= <<>> THEN fromCookie
        ELSE IF cut.ok THEN cut.after
        ELSE <<>>

\* auth.go:91-133: every path ends in next(c)
Middleware ==
    /\ authPc = "start"
    /\ LET tokenString == tokenStringOf(authReq)
           claims == ValidateToken(tokenString)
       IN authCtx' = IF tokenString = <<>> \/ claims.err THEN "" ELSE claims.UserID
    /\ authPc' = "handler"
    /\ UNCHANGED <<authReq, authResp>>

\* auth.go:135-139 with handler.go:98-100, 133-135: a protected handler
ProtectedHandler ==
    /\ authPc = "handler"
    /\ authResp' = IF authCtx = "" THEN StatusUnauthorized ELSE StatusOK
    /\ authPc' = "done"
    /\ UNCHANGED <<authReq, authCtx>>

\* the parts that stand apart from the tile, analysis and LiDAR machines
restVars == <<geotiffVars, pathVars, authVars>>

RestIdle == GeoTiffIdle /\ PathIdle /\ AuthIdle

vars == <<tileVars, analysisVars, tfvVars, chmVars, lidarVars, restVars>>

\* the variables an action of one part of the backend leaves alone
allButTile == <<analysisVars, tfvVars, chmVars, lidarVars, restVars>>

allButAnalysis == <<tileVars, tfvVars, chmVars, lidarVars, restVars>>

allButTfv == <<tileVars, analysisVars, chmVars, lidarVars, restVars>>

allButChm == <<tileVars, analysisVars, tfvVars, lidarVars, restVars>>

allButLidar == <<tileVars, analysisVars, tfvVars, chmVars, restVars>>

allButGeoTiff == <<tileVars, analysisVars, tfvVars, chmVars, lidarVars, pathVars, authVars>>

allButPath == <<tileVars, analysisVars, tfvVars, chmVars, lidarVars, geotiffVars, authVars>>

allButAuth == <<tileVars, analysisVars, tfvVars, chmVars, lidarVars, geotiffVars, pathVars>>

TilesIdle == TileInit({1})

AnalysisIdle == AnalysisInit({ <<>> })

TfvIdle == raw = <<"F", "P">> /\ norm = ""

\* concurrent clients asking for the same tile
Init == TileInit(1..NumReq) /\ AnalysisIdle /\ TfvIdle /\ ChmIdle /\ LidarIdle /\ RestIdle

Next ==
    \/ \E r \in Slots, in \in SameTileInputs :
         ForestTile(r, in) /\ UNCHANGED allButTile
    \/ \E r \in Slots : serveTileFetch(r) /\ UNCHANGED allButTile
    \/ \E r \in Slots : serveTileSet(r) /\ UNCHANGED allButTile
    \/ Tick /\ UNCHANGED allButTile

Spec == Init /\ [][Next]_vars

\* one client sending every shape of request, one after the other
ParamInit == TileInit({1}) /\ AnalysisIdle /\ TfvIdle /\ ChmIdle /\ LidarIdle /\ RestIdle

ParamNext ==
    \/ \E r \in Slots, in \in ParamInputs :
         ForestTile(r, in) /\ UNCHANGED allButTile
    \/ \E r \in Slots, in \in ParamInputs :
         AdminTile(r, in) /\ UNCHANGED allButTile
    \/ \E r \in Slots, in \in ParamInputs :
         CadastreTile(r, in) /\ UNCHANGED allButTile
    \/ \E r \in Slots : serveTileFetch(r) /\ UNCHANGED allButTile
    \/ \E r \in Slots : serveTileSet(r) /\ UNCHANGED allButTile

ParamSpec == ParamInit /\ [][ParamNext]_vars

\* one client asking for a 24 h tile of each kind and a 7 d tile while time
\* passes
TtlInit == TileInit({1}) /\ AnalysisIdle /\ TfvIdle /\ ChmIdle /\ LidarIdle /\ RestIdle

TtlNext ==
    \/ \E r \in Slots, in \in TileInputs :
         ForestTile(r, in) /\ UNCHANGED allButTile
    \/ \E r \in Slots, in \in TileInputs :
         AdminTile(r, in) /\ UNCHANGED allButTile
    \/ \E r \in Slots, in \in TileInputs :
         CadastreTile(r, in) /\ UNCHANGED allButTile
    \/ \E r \in Slots : serveTileFetch(r) /\ UNCHANGED allButTile
    \/ \E r \in Slots : serveTileSet(r) /\ UNCHANGED allButTile
    \/ Tick /\ UNCHANGED allButTile

TtlSpec == TtlInit /\ [][TtlNext]_vars

\* one client asking for tiles while the connection to Redis comes and goes
CacheFaultInit == TileInit({1}) /\ AnalysisIdle /\ TfvIdle /\ ChmIdle /\ LidarIdle /\ RestIdle

CacheFaultNext ==
    \/ \E r \in Slots, in \in TileInputs :
         ForestTile(r, in) /\ UNCHANGED allButTile
    \/ \E r \in Slots, in \in TileInputs :
         AdminTile(r, in) /\ UNCHANGED allButTile
    \/ \E r \in Slots, in \in TileInputs :
         CadastreTile(r, in) /\ UNCHANGED allButTile
    \/ \E r \in Slots : serveTileFetch(r) /\ UNCHANGED allButTile
    \/ \E r \in Slots : serveTileSet(r) /\ UNCHANGED allButTile
    \/ RedisFault /\ UNCHANGED allButTile

CacheFaultSpec == CacheFaultInit /\ [][CacheFaultNext]_vars

\* polygon analyses, one after the other, over every content of the table
AnalysisStart ==
    TilesIdle /\ AnalysisInit(SeqsUpTo(ParcelRows, MaxParcels)) /\ TfvIdle /\ ChmIdle /\ LidarIdle /\ RestIdle

AnalysisNext ==
    \/ \E d \in Docs : AnalyzePolygon(d) /\ UNCHANGED allButAnalysis
    \/ summaryQuery /\ UNCHANGED allButAnalysis
    \/ tfvQuery /\ UNCHANGED allButAnalysis
    \/ speciesQuery /\ UNCHANGED allButAnalysis

AnalysisSpec == AnalysisStart /\ [][AnalysisNext]_vars

\* the normalisation of every raw code
TfvInit == TilesIdle /\ AnalysisIdle /\ raw \in RawCodes /\ norm = "" /\ ChmIdle /\ LidarIdle /\ RestIdle

TfvNext == Normalise /\ UNCHANGED allButTfv

TfvSpec == TfvInit /\ [][TfvNext]_vars

\* computeCHM over every pair of rasters of the model
ChmInit ==
    /\ TilesIdle /\ AnalysisIdle /\ TfvIdle
    /\ chmMns \in ChmRasters /\ chmMnt \in ChmRasters /\ chmOut = NoRaster
    /\ LidarIdle /\ RestIdle

ChmNext == ComputeCHM /\ UNCHANGED allButChm

ChmSpec == ChmInit /\ [][ChmNext]_vars

\* one LiDAR analysis over each content of the disk cache
LidarInit ==
    /\ TilesIdle /\ AnalysisIdle /\ TfvIdle /\ ChmIdle /\ RestIdle
    /\ \E index \in LidarIndexes : \E files \in DiskContents(index) : LidarStart(index, files)

LidarNext ==
    \/ \E d \in LidarDocs : AnalyzeLidar(d) /\ UNCHANGED allButLidar
    \/ Cancel /\ UNCHANGED allButLidar
    \/ queryMNS /\ UNCHANGED allButLidar
    \/ queryMNT /\ UNCHANGED allButLidar
    \/ \E i \in DOMAIN task : taskStart(i) /\ UNCHANGED allButLidar
    \/ \E i \in DOMAIN task : taskHttp(i) /\ UNCHANGED allButLidar
    \/ \E i \in DOMAIN task : taskStore(i) /\ UNCHANGED allButLidar
    \/ collect /\ UNCHANGED allButLidar
    \/ encodePNG /\ UNCHANGED allButLidar

LidarSpec == LidarInit /\ [][LidarNext]_vars

\* one LiDAR analysis over every answer of the index of up to MaxPairs tiles
\* of each kind, none of them with a URL
PairInit ==
    /\ TilesIdle /\ AnalysisIdle /\ TfvIdle /\ ChmIdle /\ RestIdle
    /\ \E mns \in SeqsUpTo(MnsPool, MaxPairs), mnt \in SeqsUpTo(MntPool, MaxPairs) :
         LidarStart(Index(mns, mnt), NoFiles)

PairNext ==
    \/ AnalyzeLidar(LidarDoc(TRUE, "Polygon", TRUE, ParisRing)) /\ UNCHANGED allButLidar
    \/ queryMNS /\ UNCHANGED allButLidar
    \/ queryMNT /\ UNCHANGED allButLidar
    \/ \E i \in DOMAIN task : taskStart(i) /\ UNCHANGED allButLidar
    \/ collect /\ UNCHANGED allButLidar

PairSpec == PairInit /\ [][PairNext]_vars

\* one LiDAR analysis over one pair of tiles while clients ask the image
\* route for ids
ImageInit ==
    /\ TilesIdle /\ AnalysisIdle /\ TfvIdle /\ ChmIdle /\ RestIdle
    /\ \E files \in DiskContents(Index(MnsTiles(1), MntTiles(1))) :
         LidarStart(Index(MnsTiles(1), MntTiles(1)), files)

ImageNext ==
    \/ AnalyzeLidar(LidarDoc(TRUE, "Polygon", TRUE, ParisRing)) /\ UNCHANGED allButLidar
    \/ queryMNS /\ UNCHANGED allButLidar
    \/ queryMNT /\ UNCHANGED allButLidar
    \/ \E i \in DOMAIN task : taskStart(i) /\ UNCHANGED allButLidar
    \/ \E i \in DOMAIN task : taskHttp(i) /\ UNCHANGED allButLidar
    \/ \E i \in DOMAIN task : taskStore(i) /\ UNCHANGED allButLidar
    \/ collect /\ UNCHANGED allButLidar
    \/ encodePNG /\ UNCHANGED allButLidar
    \/ \E param \in ImageParams : GetCHMImage(param) /\ UNCHANGED allButLidar

ImageSpec == ImageInit /\ [][ImageNext]_vars

\* ParseGeoTIFF over every buffer of the model
GeoTiffInit ==
    /\ TilesIdle /\ AnalysisIdle /\ TfvIdle /\ ChmIdle /\ LidarIdle /\ PathIdle /\ AuthIdle
    /\ \E d \in TiffDescs : GeoTiffStart(d)

GeoTiffNext == Parse /\ UNCHANGED allButGeoTiff

GeoTiffSpec == GeoTiffInit /\ [][GeoTiffNext]_vars

\* the paths of every tile of the model, with and without ".mvt"
PathInit ==
    /\ TilesIdle /\ AnalysisIdle /\ TfvIdle /\ ChmIdle /\ LidarIdle /\ GeoTiffIdle /\ AuthIdle
    /\ \E c \in TileCoords : PathStart(c)

PathNext == \E f \in PathForms : ParsePath(f) /\ UNCHANGED allButPath

PathSpec == PathInit /\ [][PathNext]_vars

\* the middleware and a protected handler over every request of the model
AuthInit ==
    /\ TilesIdle /\ AnalysisIdle /\ TfvIdle /\ ChmIdle /\ LidarIdle /\ GeoTiffIdle /\ PathIdle
    /\ \E r \in AuthRequests : AuthStart(r)

AuthNext ==
    \/ Middleware /\ UNCHANGED allButAuth
    \/ ProtectedHandler /\ UNCHANGED allButAuth

AuthSpec == AuthInit /\ [][AuthNext]_vars

\* ------------------------------------------------------------------------
\* Properties of the tile service
\* ------------------------------------------------------------------------

Coords(in) == <<in.z, in.x, in.y>>

Answered(r) == pc[r] = "done"

\* C1: single-flight. A request that misses while another request for the
\* same fingerprint has invoked fetch and not yet published its result does
\* not invoke fetch itself (so that N concurrent misses cost one fetch), and
\* it responds with the bytes of that one fetch.
C1_SingleFlight ==
    \A r \in Slots : (did[r].get /\ seen[r].inflight) => ~did[r].fetch

\* C2: negative caching. A request that arrives after an empty result was
\* stored for its fingerprint, and before the TTL of that store has elapsed,
\* is answered 204 without invoking fetch.
C2_NegativeCaching ==
    \A r \in Slots :
        (did[r].get /\ seen[r].emptyAge /= NoTime
            /\ seen[r].emptyAge < (IF req[r].route = "admin" THEN 168 ELSE 24))
        => (Answered(r) /\ resp[r].status = 204 /\ ~did[r].fetch)

\* C3: a request that passes the identity check of its route and whose z, x
\* or y is non-numeric, negative or (z) above 22 is answered 400 and reads
\* no cache entry, writes none and queries no table.
C3_BadCoordsRejected ==
    \A r \in Slots :
        (pc[r] /= "idle" /\ Coords(req[r]) \in BadCoords
            /\ (req[r].route = "admin" \/ req[r].user))
        => (Answered(r) /\ resp[r].status = 400 /\ did[r] = NoStep)

C3_Witness ==
    \E r \in Slots :
        /\ Answered(r) /\ resp[r].status = 400
        /\ req[r].route = "admin" /\ req[r].layer = "regions"
        /\ req[r].z = <<"2", "3">>
        /\ cache[<<"tile", "admin", "regions", 22, 1, 3>>].ttl > 0

\* C4: an admin tile request with valid coordinates and a layer name outside
\* {regions, departements, communes} is answered 400, every time.
C4_InvalidLayer400 ==
    \A r \in Slots :
        (Answered(r) /\ req[r].route = "admin"
            /\ req[r].layer \notin {"regions", "departements", "communes"}
            /\ Coords(req[r]) \in GoodCoords)
        => resp[r].status = 400

\* C5: every admin statement sent to the database interpolates a layer name
\* of {regions, departements, communes}.
C5_OnlyAllowListedSQL ==
    sqlLayers \subseteq {"regions", "departements", "communes"}

C5_Witness ==
    /\ sqlLayers = {"regions", "departements", "communes"}
    /\ \E r \in Slots : Answered(r) /\ req[r].route = "admin" /\ req[r].layer = "foo"
                        /\ did[r].fetch

\* C6: a foret or cadastre request without identity is answered 401 whatever
\* its coordinates, and reads no cache entry, writes none and queries no table.
C6_NoIdentity401 ==
    \A r \in Slots :
        (pc[r] /= "idle" /\ req[r].route \in {"foret", "cadastre"} /\ ~req[r].user)
        => (Answered(r) /\ resp[r].status = 401 /\ did[r] = NoStep)

C6_Witness ==
    \E r \in Slots :
        /\ Answered(r) /\ resp[r].status = 401
        /\ req[r].route = "cadastre" /\ ~req[r].user
        /\ Coords(req[r]) \in BadCoords
        /\ cache[<<"tile", "cadastre", 22, 1, 3>>].ttl > 0

\* C7: a request that arrives less than the TTL of its route (24 h for foret
\* and cadastre, 7 d = 168 h for admin) after the last write of its
\* fingerprint is served from the cache without fetch; a request that
\* arrives when the fingerprint was never written or the TTL has elapsed
\* invokes fetch.
C7_ServedUntilExpiry ==
    \A r \in Slots :
        did[r].get =>
            LET ttl == IF req[r].route = "admin" THEN 168 ELSE 24
                live == seen[r].age /= NoTime /\ seen[r].age < ttl
            IN  /\ live => (~did[r].fetch /\ Answered(r) /\ resp[r].status \in {200, 204})
                /\ ~live => did[r].fetch

C7_Witness ==
    \E r \in Slots :
        /\ req[r].route = "admin" /\ did[r].get /\ ~did[r].fetch
        /\ seen[r].age = 156
        /\ cache[<<"tile", "foret", 22, 1, 3>>].val = <<7>>
        /\ cache[<<"tile", "foret", 22, 1, 3>>].ttl = 0
        /\ age[<<"tile", "cadastre", 22, 1, 3>>] = 24

\* C8: a live cache entry is never replaced by different bytes.
C8_ImmutableWhileLive ==
    [][\A k \in AllKeys : cache[k].ttl > 0 => cache'[k].val = cache[k].val]_vars

\* C16: a cache failure never changes what the client receives. A request
\* whose cache lookup returned an error invokes fetch, as on a miss, and is
\* answered with the result of fetch (200 with the bytes, 204 when empty, 500
\* when fetch failed); a request whose cache write returned an error is
\* answered with the fetched tile (200 with the bytes, 204 when empty).
C16_CacheFailureInvisible ==
    \A r \in Slots :
        /\ faults[r].get => did[r].fetch
        /\ (Answered(r) /\ (faults[r].get \/ faults[r].set)) =>
              IF faults[r].fetch
              THEN resp[r].status = 500
              ELSE /\ did[r].set
                   /\ (Len(tile[r].bytes) = 0 => resp[r].status = 204)
                   /\ (Len(tile[r].bytes) > 0 =>
                          resp[r].status = 200 /\ resp[r].body = tile[r].bytes)

C16_Witness ==
    \E r \in Slots :
        /\ Answered(r) /\ faults[r].get /\ faults[r].set
        /\ resp[r].status = 200 /\ resp[r].body = <<7>>
        /\ cache[KeyOf(req[r])].ttl = 0

\* C17: a request whose fetch fails is answered 500 and writes nothing to
\* the cache: the step in which fetch fails leaves the cache as it was, the
\* fingerprint is absent when the request is answered, and the next request
\* for the same fingerprint invokes fetch again.
C17_FetchFailureNotCached ==
    [][\A r \in Slots :
        /\ (pc[r] = "fetch" /\ faults'[r].fetch) =>
              /\ pc'[r] = "done" /\ resp'[r].status = 500 /\ ~did'[r].set
              /\ cache' = cache
              /\ cache[KeyOf(req[r])].ttl = 0
        /\ (Answered(r) /\ faults[r].fetch /\ pc'[r] /= "done"
              /\ did'[r].get /\ KeyOf(req'[r]) = KeyOf(req[r])) => did'[r].fetch
        /\ (Answered(r) /\ faults[r].fetch) => (resp[r].status = 500 /\ ~did[r].set)]_vars

C17_Witness ==
    \E r \in Slots :
        /\ Answered(r) /\ did[r].query /\ faults[r].fetch /\ resp[r].status = 500
        /\ req[r].route = "cadastre"
        /\ age[KeyOf(req[r])] = 24 /\ cache[KeyOf(req[r])].ttl = 0
        /\ cache[<<"tile", "foret", 22, 1, 3>>].ttl > 0

\* ------------------------------------------------------------------------
\* Properties of the polygon analysis
\* ------------------------------------------------------------------------

\* the GeoJSON type of a document: the string value of its "type" member
GeoJSONType(d) == IF d.kind = "object" /\ d.member = "string" THEN d.type ELSE ""

CanonicalCodes == {"FF1", "FF2", "FF3", "FF4", "FO1", "FO2", "FO3", "LA", "FP"}

StartsWith(code, p) == Len(code) >= Len(p) /\ \A i \in 1..Len(p) : code[i] = p[i]

\* the table of the eight specific rules
TableRule(c, code) ==
    CASE c = "FF1" -> \/ StartsWith(code, <<"F", "F", "1">>) \/ code = <<"F", "F", "0">>
                      \/ code \in { <<"A", "F", "J">>, <<"A", "F", "V">>, <<"H", "F", "W">>,
                                    <<"H", "F", "Z">>, <<"Q", "F">> }
      [] c = "FF2" -> \/ StartsWith(code, <<"F", "F", "2">>)
                      \/ code \in { <<"C", "P", "J">>, <<"C", "P", "V">>, <<"C", "R", "J">>,
                                    <<"C", "R", "V">> }
      [] c = "FF3" -> StartsWith(code, <<"F", "F", "3">>) \/ code \in { <<"F", "R">>, <<"M", "R">> }
      [] c = "FO1" -> StartsWith(code, <<"F", "O", "1">>) \/ code = <<"3", "0">>
      [] c = "FO2" -> StartsWith(code, <<"F", "O", "2">>)
      [] c = "FO3" -> StartsWith(code, <<"F", "O", "3">>)
      [] c = "LA"  -> StartsWith(code, <<"L", "A">>) \/ code = <<"4", "0">>
      [] c = "FP"  -> code = <<"F", "P">> \/ code = <<"5", "0">>
      [] c = "FF4" -> FALSE

\* C10: every non-empty raw code is normalised to one of the nine canonical
\* codes; a code that matches the rule of one of the eight specific codes is
\* normalised to that code and matches no other rule, and FF4 is the result
\* exactly for the codes that match none of the eight rules.
C10_NormalisationFollowsTable ==
    norm /= "" =>
        /\ norm \in CanonicalCodes
        /\ Cardinality({ c \in CanonicalCodes : TableRule(c, raw) }) <= 1
        /\ \A c \in CanonicalCodes \ {"FF4"} : (norm = c) <=> TableRule(c, raw)
        /\ (norm = "FF4") <=> (\A c \in CanonicalCodes : ~TableRule(c, raw))

C10_Witness ==
    /\ norm = "FO2" /\ raw = <<"F", "O", "2", "1">>

\* the canonical code the table gives a raw code
TableCode(code) ==
    IF \E c \in CanonicalCodes : TableRule(c, code)
    THEN CHOOSE c \in CanonicalCodes : TableRule(c, code)
    ELSE "FF4"

\* the sum of the intersected areas of the parcels picked by the indices
RECURSIVE AreaOver(_)
AreaOver(idx) ==
    IF idx = {} THEN 0
    ELSE LET i == CHOOSE j \in idx : TRUE
         IN  parcels[i].area + AreaOver(idx \ {i})

TfvAnswered == apc \in {"species", "done"} /\ ~stats.err /\ ~stats.nil /\ Len(parcels) > 0

SpeciesAnswered == apc = "done" /\ ~stats.err /\ ~stats.nil /\ Len(parcels) > 0

\* a dominant-species field that is null, empty or only whitespace
NoSpecies(p) == p.essNull \/ \A i \in 1..Len(p.essence1) : p.essence1[i] = " "

\* C20: in the species breakdown no two rows carry the same species value;
\* the parcels whose dominant-species field is null, empty or only
\* whitespace make one row, with the sentinel value and the sum of their
\* areas.
C20_SpeciesCollapsed ==
    SpeciesAnswered =>
        LET rows == stats.species
            none == { k \in 1..Len(parcels) : NoSpecies(parcels[k]) }
        IN  /\ \A i, j \in 1..Len(rows) : rows[i].essence = rows[j].essence => i = j
            /\ \A i \in 1..Len(rows) :
                 rows[i].essence = Sentinel => rows[i].area = AreaOver(none)

\* ------------------------------------------------------------------------
\* Properties of the LiDAR pipeline
\* ------------------------------------------------------------------------

\* pixel (x, y) of a raster, x and y counted from 0
At(r, x, y) == r.Data[y * r.Width + x + 1]

\* a pixel that carries no height: the nodata value of its raster, or NaN
Invalid(r, v) == v.nan \/ (r.HasNoData /\ ~r.NoData.nan /\ v.v = r.NoData.v)

Min2(a, b) == IF a < b THEN a ELSE b

\* C11: the raster computeCHM returns covers the overlapping rectangle
\* (min of the widths, min of the heights); its pixel (x, y) is
\* max(0, mns(x, y) - mnt(x, y)) when neither input pixel is nodata or NaN,
\* and the nodata sentinel -9999 otherwise; a pixel that is not the sentinel
\* is never negative.
C11_ChmCorrect ==
    chmOut /= NoRaster =>
        /\ chmOut.Width = Min2(chmMns.Width, chmMnt.Width)
        /\ chmOut.Height = Min2(chmMns.Height, chmMnt.Height)
        /\ Len(chmOut.Data) = chmOut.Width * chmOut.Height
        /\ \A x \in 0..(chmOut.Width - 1), y \in 0..(chmOut.Height - 1) :
             LET a == At(chmMns, x, y)
                 b == At(chmMnt, x, y)
                 c == At(chmOut, x, y)
             IN  /\ ~c.nan
                 /\ IF Invalid(chmMns, a) \/ Invalid(chmMnt, b)
                    THEN c.v = 0 - 9999
                    ELSE c.v = (IF a.v - b.v > 0 THEN a.v - b.v ELSE 0)
                 /\ (c.v /= 0 - 9999 => c.v >= 0)

C11_Witness ==
    /\ chmOut /= NoRaster
    /\ chmMns.Width = 2 /\ chmMnt.Width = 1 /\ chmOut.Height = 2
    /\ At(chmMns, 0, 1).v = 5 /\ At(chmMnt, 0, 1).v = 10 /\ ~chmMns.HasNoData
    /\ At(chmOut, 0, 1) = Num(0)
    /\ At(chmOut, 0, 0) = Num(12)

\* C12: when the MNS index query answers with more than 25 tiles, AnalyzeLidar
\* returns at once a result with HasCoverage = false whose message names
\* the cap 25; it requests no raster download and writes no file.
C12_TooManyTilesStops ==
    lTiles > 25 =>
        /\ lpc = "done"
        /\ ~lres.err /\ ~lres.nil /\ ~lres.HasCoverage
        /\ lres.Message.kind = "AreaTooLarge" /\ lres.Message.max = 25
        /\ task = <<>>
        /\ ~llog.download /\ ~llog.raster /\ ~llog.png

C12_Witness ==
    /\ lpc = "done" /\ lTiles = 30 /\ lres.Message.n = 30 /\ ~lres.HasCoverage
    /\ DOMAIN disk = {} /\ lpoly.points = ParisRing

InWGS84(b) ==
    /\ b[1] >= 0 - 18000 /\ b[1] <= 18000 /\ b[3] >= 0 - 18000 /\ b[3] <= 18000
    /\ b[2] >= 0 - 9000 /\ b[2] <= 9000 /\ b[4] >= 0 - 9000 /\ b[4] <= 9000

\* C13: the Bounds of every result AnalyzeLidar returns lie within the WGS84
\* ranges (longitudes in [-180, 180], latitudes in [-90, 90]), and when the
\* bounds derived from the tiles are out of range the bbox of the polygon is
\* returned.
C13_BoundsWithinWGS84 ==
    (lpc = "done" /\ ~lres.nil) =>
        /\ InWGS84(lres.Bounds)
        /\ (lres.CHMImageID /= <<>> /\ ~InWGS84(llog.derived))
             => lres.Bounds = geojsonBBox(lpoly).bbox

\* C14: when one of the 2n fetch tasks has failed, the call returns an error
\* and no result, no CHM is computed and no PNG is written.
C14_TaskFailureFailsRequest ==
    (lpc = "done" /\ \E i \in DOMAIN task : task[i] = "err") =>
        /\ lres.err /\ lres.nil
        /\ ~llog.chm /\ ~llog.png

C14_Witness ==
    /\ lpc = "done" /\ Len(task) = 4
    /\ task[4] = "err" /\ \A i \in 1..3 : task[i] = "ok"
    /\ lres.err /\ llog.raster /\ ~cancelled

\* C15: once the context is cancelled the call writes nothing, neither a
\* raster file nor the PNG, and it ends with an error.
C15_CancelWritesNothing ==
    /\ ~llog.late
    /\ (lpc = "done" /\ cancelled) => lres.err

\* the element at position k, counted from 1, of the values in ascending order
Ranked(vals, k) ==
    CHOOSE v \in { vals[i] : i \in 1..Len(vals) } :
        /\ Cardinality({ i \in 1..Len(vals) : vals[i] < v }) < k
        /\ Cardinality({ i \in 1..Len(vals) : vals[i] <= v }) >= k

\* C18: the median of a result with statistics is the lower median of the
\* canopy heights: of n heights in ascending order the one at position
\* n/2 - 1 for an even n and at the middle for an odd n (positions counted
\* from 0); and min <= median <= max.
C18_LowerMedian ==
    (lpc = "done" /\ lres.CHMImageID /= <<>>) =>
        LET vals == llog.canopy
            n == Len(vals)
        IN  /\ lres.MedianHeight
                 = 100 * Ranked(vals, (IF n % 2 = 0 THEN n \div 2 - 1 ELSE (n - 1) \div 2) + 1)
            /\ lres.MinHeight <= lres.MedianHeight
            /\ lres.MedianHeight <= lres.MaxHeight

\* ------------------------------------------------------------------------
\* Properties of the tile pairing
\* ------------------------------------------------------------------------

\* the positions of the underscores of a name
Seps(name) == { i \in 1..Len(name) : name[i] = "_" }

\* the position of the k-th underscore; 0 for k = 0
SepAt(name, k) ==
    IF k = 0 THEN 0
    ELSE CHOOSE i \in Seps(name) : Cardinality({ j \in Seps(name) : j < i }) = k - 1

\* the k-th field of a name that has more than k fields
FieldAt(name, k) == SubSeq(name, SepAt(name, k - 1) + 1, SepAt(name, k) - 1)

\* a name has a grid key when it has the fields LHD, area, X, Y and product
HasGridKey(name) == Cardinality(Seps(name)) >= 4

GridKey(name) == <<FieldAt(name, 3), FieldAt(name, 4)>>

Partnered(t, mnt) ==
    /\ HasGridKey(t.Name)
    /\ \E k \in 1..Len(mnt) :
         HasGridKey(mnt[k].Name) /\ GridKey(mnt[k].Name) = GridKey(t.Name)

\* C21: matchTilePairs returns two lists of equal length in which the i-th
\* surface tile and the i-th terrain tile have the same grid key, fields 3
\* and 4 of the name (a name of fewer than five fields has none); the
\* surface tiles of the output are the surface tiles of the answer that have
\* a grid key equal to that of a terrain tile, every other tile is dropped;
\* and when no pair exists AnalyzeLidar returns HasCoverage = false without
\* starting a fetch task or a download.
C21_PairsShareGridKey ==
    LET Keep(t) == Partnered(t, wfs.mnt)
        none == \A j \in 1..Len(wfs.mns) : ~Keep(wfs.mns[j])
    IN  /\ task /= <<>> =>
              /\ Len(lPairs.mns) = Len(lPairs.mnt)
              /\ Len(task) = 2 * Len(lPairs.mns)
              /\ lPairs.mns = SelectSeq(wfs.mns, Keep)
              /\ \A i \in 1..Len(lPairs.mns) :
                    /\ HasGridKey(lPairs.mns[i].Name) /\ HasGridKey(lPairs.mnt[i].Name)
                    /\ GridKey(lPairs.mns[i].Name) = GridKey(lPairs.mnt[i].Name)
                    /\ \E k \in 1..Len(wfs.mnt) : wfs.mnt[k] = lPairs.mnt[i]
        /\ none =>
              /\ task = <<>> /\ ~llog.download
              /\ (lpc = "done" /\ ~lres.err /\ lTiles > 0) =>
                    (~lres.HasCoverage /\ lres.Message.kind = "MntMissing")
        /\ lres.Message.kind = "MntMissing" => none

C21_Witness ==
    /\ lpc = "done" /\ lres.err
    /\ wfs.mns = << NamedTile(<< <<"L">>, <<"F">>, <<"1">>, <<"1">>, <<"S">>, <<"O">> >>),
                    NamedTile(<< <<"L">>, <<"F">>, <<"1">>, <<"1">>, <<"S">>, <<"C">> >>) >>
    /\ wfs.mnt = << NamedTile(<< <<"L">>, <<"F">>, <<"1">>, <<"1">>, <<"T">>, <<"O">> >>),
                    NamedTile(<< <<"L">>, <<"F">>, <<"1">>, <<"1">>, <<"T">>, <<"C">> >>) >>
    /\ lPairs.mns = wfs.mns
    /\ lPairs.mnt = <<wfs.mnt[2], wfs.mnt[2]>>

\* ------------------------------------------------------------------------
\* Properties of the CHM image store
\* ------------------------------------------------------------------------

\* the id a client names, with or without ".png"
AskedId(param) ==
    IF Len(param) >= 4 /\ SubSeq(param, Len(param) - 3, Len(param)) = <<".", "p", "n", "g">>
    THEN SubSeq(param, 1, Len(param) - 4)
    ELSE param

TiffFaults(d) ==
    { f \in {"order", "magic", "short", "cut"} : d.head = f }
    \cup (IF d.sample.bits /= floatBits THEN {"bits"} ELSE {})
    \cup (IF d.sample.format /= floatFormat THEN {"format"} ELSE {})
    \cup (IF d.compression \notin {compressionNone, compressionDeflate, compressionDeflateNew}
          THEN {"compression"} ELSE {})
    \cup (IF d.tiled /\ (d.tile.tw = 0 \/ d.tile.th = 0) THEN {"tile size"} ELSE {})
    \cup (IF d.offsets < MaxChunks THEN {"offsets"} ELSE {})
    \cup (IF d.counts < MaxChunks THEN {"byte counts"} ELSE {})
    \cup (IF d.reach = "outside" THEN {"chunk"} ELSE {})

\* C23: ParseGeoTIFF ends with a raster or with an error for every buffer,
\* never with a panic, and with an error for a wrong byte-order marker or
\* magic number, bits-per-sample other than 32, a sample format other than
\* 3, an unsupported compression, a truncated IFD, a zero tile size, missing
\* or too short offset or byte-count arrays and chunks outside the buffer.
C23_ParseEndsWithRasterOrError ==
    gtRes /= NotParsed =>
        /\ gtRes.kind \in {"raster", "error"}
        /\ TiffFaults(gtDesc) /= {} => gtRes.kind = "error"

\* ------------------------------------------------------------------------
\* Properties of the tile paths
\* ------------------------------------------------------------------------

\* C24: the path of valid coordinates with z in 0..22 is accepted with and
\* without ".mvt" after y, both forms give the coordinates asked for and the
\* same cache key, and stripping the stripped y again changes nothing.
C24_MvtSuffixStrippedOnce ==
    /\ \A f \in PathForms : parsedAs[f].asked =>
          /\ ~parsedAs[f].err
          /\ <<parsedAs[f].z, parsedAs[f].x, parsedAs[f].y>> = <<coord.z, coord.x, coord.y>>
          /\ parsedAs[f].key = CacheKey(coord.route, coord.layer, coord.z, coord.x, coord.y)
          /\ parsedAs[f].stripped = Itoa(coord.y)
          /\ StripMvt(parsedAs[f].stripped) = parsedAs[f].stripped
    /\ (parsedAs["plain"].asked /\ parsedAs["mvt"].asked) =>
          /\ parsedAs["plain"].key = parsedAs["mvt"].key
          /\ parsedAs["plain"].stripped = parsedAs["mvt"].stripped

C24_Witness ==
    /\ coord.z = MaxZoom /\ coord.y = 10
    /\ parsedAs["plain"].asked /\ parsedAs["mvt"].asked
    /\ parsedAs["mvt"].yRaw = <<"1", "0", ".", "m", "v", "t">>
    /\ parsedAs["mvt"].key = <<"tile", "cadastre", MaxZoom, 0, 10>>

\* ------------------------------------------------------------------------
\* Properties of the auth middleware
\* ------------------------------------------------------------------------

\* the users of the valid tokens a request carries in its cookie or after
\* "Bearer " in its Authorization header
CarriedUsers(r) ==
    { t.UserID : t \in { i \in IssuedTokens :
        /\ ~i.expired
        /\ \/ r.cookie.present /\ r.cookie.Value = i.token
           \/ r.header = BearerPrefix \o i.token } }

\* C25: once the middleware has passed a request on, the context holds the
\* user of a valid token whenever the cookie or the Bearer header carries
\* one, and no user otherwise; the request always reaches the handler.
C25_ValidTokenInEitherPlacePublishesUser ==
    authPc /= "start" =>
        /\ CarriedUsers(authReq) /= {} => authCtx \in CarriedUsers(authReq)
        /\ CarriedUsers(authReq) = {} => authCtx = ""

\* ------------------------------------------------------------------------
\* Properties of the order of the analysis queries
\* ------------------------------------------------------------------------

\* C26: the queries of one AnalyzePolygon call are sent in the order
\* summary, forest types, species, each after the one before has been
\* answered; with a count of 0 the call returns the summary with empty
\* breakdowns after the summary query alone, and a query that fails makes it
\* return an error and no statistics.
C26_QueriesInOrder ==
    /\ \E n \in 0..3 : queries = SubSeq(<<"summary", "tfv", "species">>, 1, n)
    /\ apc = "summary" => queries = <<>>
    /\ apc = "tfv" => queries = <<"summary">> /\ stats.count > 0
    /\ apc = "species" => queries = <<"summary", "tfv">>
    /\ (apc = "done" /\ ~stats.err) =>
          /\ ~stats.nil
          /\ stats.count = Len(parcels)
          /\ IF stats.count = 0
             THEN queries = <<"summary">> /\ stats.tfv = <<>> /\ stats.species = <<>>
             ELSE queries = <<"summary", "tfv", "species">>
    /\ (apc = "done" /\ stats.err) => stats = ErrStats

C26_Witness ==
    /\ apc = "done" /\ ~stats.err /\ ~stats.nil
    /\ stats.count = 0 /\ parcels = <<>>
    /\ queries = <<"summary">>

\* ------------------------------------------------------------------------
\* Properties of the task group of AnalyzeLidar
\* ------------------------------------------------------------------------

\* C27: whatever the interleaving of the fetch-and-decode tasks, the CHMs
\* are computed, the statistics taken and the image written only when each
\* of the 2n tasks has ended, and has ended without error.
C27_ChmAfterAllTasksSucceeded ==
    (llog.chm \/ llog.png \/ llog.put /= <<>> \/ lpc = "png") =>
        /\ task /= <<>>
        /\ \A i \in DOMAIN task : task[i] = "ok"

C27_Witness ==
    /\ Len(task) = 4 /\ \A i \in DOMAIN task : task[i] = "ok"
    /\ llog.chm /\ llog.png /\ llog.download
    /\ lpc = "done" /\ ~lres.err

\* C28: AnalyzeLidar returns, with a result or with an error, only when
\* none of its fetch tasks is running any more.
C28_NoTaskOutlivesTheRequest ==
    lpc = "done" => \A i \in DOMAIN task : task[i] \in {"ok", "err"}

C28_Witness ==
    /\ lpc = "done" /\ lres.err
    /\ Len(task) = 4 /\ task[1] = "err"
    /\ \E i \in DOMAIN task : task[i] = "ok" /\ data[i].sent

\* ------------------------------------------------------------------------
\* Properties of the raster disk cache under failures and shared files
\* ------------------------------------------------------------------------

\* the other tasks of the request that use the cache file of task i
SameFile(i) ==
    { j \in DOMAIN task \ {i} : cachePath(tileOf(j)) = cachePath(tileOf(i)) }

\* C29: two tasks of one request that fetch the same tile download name do
\* not disturb each other: no task reads a cache file that another task has
\* created and not yet written, so a task that finds the file of its tile
\* returns the raster of that file.
C29_SameTileTasksBenign ==
    \A i \in DOMAIN task :
        data[i].cached => (data[i].bytes /= "open" /\ (task[i] = "err" => data[i].bytes = "bad"))

\* C30: a task whose download or decoding failed leaves no file for its
\* tile in the disk cache.
C30_FailedFetchLeavesNoEntry ==
    \A i \in DOMAIN task :
        (task[i] = "err" /\ data[i].sent /\ SameFile(i) = {}) =>
            FileState(cachePath(tileOf(i))) = "none"

====
